---- MODULE Spec2Model ----
(***************************************************************************)
(* A model of rweeks/tankmonitor: the bounded sample log (tanklogger.py)   *)
(* and the ingestion / alert-mail path of the Tornado application          *)
(* (tankmonitor.py, settings.py).                                          *)
(*                                                                         *)
(* Timestamps are whole seconds.  Sample values and rates are Python       *)
(* floats in the source; here they are exact rationals [num, den] in       *)
(* lowest terms with den > 0, so that equal numbers are equal values.      *)
(* A Python Optional is a sequence of length 0 (None) or 1.                *)
(***************************************************************************)
EXTENDS Integers, Sequences, FiniteSets, TLC

VARIABLES
    tl,          \* SpecLogger: one TankLogger object
    accepted,    \* SpecLogger: every record that passed the capture test, in order
    call,        \* SpecLogger: the last method call on tl: name, argument, result
    scenario_pos, \* SpecLogger: k when the offers so far are exactly Scenario[1..k], else -1
    now,         \* Spec: the wall clock read by time()
    ticks_left,  \* Spec: how often the clock may still advance
    samples_left, \* Spec: how many samples the sensors may still deliver
    tasks,       \* Spec: the event loop's queue of scheduled _offer_log_record calls
    loggers,     \* Spec: TankMonitor.loggers, category -> the three TankLoggers
    last_alert,  \* Spec: AlertMailer.last_alert
    generic_alert_mail, \* Spec: AlertMailer.generic_alert_mail, None when the file is absent
    outbox,      \* Spec: the send_message jobs handed to thread_pool, oldest first
    event_listeners, \* Spec: EventConnection.event_listeners
    out,         \* Spec: what the step just taken emitted
    threads,     \* SpecThreads: the two reader threads: position, locals
    frame,       \* SpecThreads: per runner, the _offer_log_record call it is executing
    ingested,    \* SpecThreads: how many _offer_log_record calls have run to their end
    send_fails,  \* the connections whose send() raises: their session is broken
    SERIAL_LOCK, \* SpecSerial: the reader thread that holds the lock, or None
    stop_reading, \* SpecSerial: the stop_reading attribute of the two handlers
    valve,       \* SpecValve: ValveHandler's class attributes and the GPIO output
    sessions,    \* the connections between their on_open and their on_close
    log_level,   \* SpecSyslog: the level of the module's logger `log`
    log_level_reset_at \* SpecSyslog: the global log_level_reset_at

lvars == <<tl, accepted, call, scenario_pos>>
mvars == <<now, ticks_left, samples_left, tasks, loggers, last_alert, generic_alert_mail,
           outbox, event_listeners, out>>
tvars == <<threads, frame, ingested>>
svars == <<log_level, log_level_reset_at>>
xvars == <<send_fails, SERIAL_LOCK, stop_reading, valve, sessions, svars>>
vars == <<lvars, mvars, tvars, xvars>>

---------------------------------------------------------------------------
(* Python values *)

None == <<>>
Some(x) == <<x>>

Abs(n) == IF n < 0 THEN -n ELSE n

RECURSIVE GCD(_, _)
GCD(a, b) == IF b = 0 THEN a ELSE GCD(b, a % b)

\* the float n/d (d # 0)
Rat(n, d) ==
    LET g == GCD(Abs(n), Abs(d))
        s == IF d < 0 THEN -1 ELSE 1
    IN  [num |-> (s * n) \div g, den |-> (s * d) \div g]

F(n) == Rat(n, 1)
RatSub(a, b) == Rat(a.num * b.den - b.num * a.den, a.den * b.den)
RatLt(a, b) == a.num * b.den < b.num * a.den
RatGt(a, b) == RatLt(b, a)

Last(s) == s[Len(s)]

---------------------------------------------------------------------------
(* tanklogger.py *)

default_max_log_records == 1440

TankLogRecord(timestamp, value) == [timestamp |-> timestamp, value |-> value]

TankAlert(timestamp, value, delta) ==
    [timestamp |-> timestamp, value |-> value, delta |-> delta]

\* a variant of find_delta that gives the rate per second: the factor 60.0 is
\* missing
find_delta_per_second(record, prev_rec) ==
    IF prev_rec = None
    THEN [interval |-> None, delta |-> None]
    ELSE LET interval == record.timestamp - prev_rec[1].timestamp
         IN  IF interval = 0
             THEN [interval |-> None, delta |-> None]
             ELSE [interval |-> Some(interval),
                   delta |-> Some(Rat(RatSub(record.value, prev_rec[1].value).num,
                                      RatSub(record.value, prev_rec[1].value).den * interval))]

\* find_delta(record, prev_rec) -> (interval, rate per minute) or (None, None);
\* prev_rec is an Optional record.
find_delta(record, prev_rec) ==
    IF prev_rec = None
    THEN [interval |-> None, delta |-> None]
    ELSE LET interval == record.timestamp - prev_rec[1].timestamp
         IN  IF interval = 0
             THEN [interval |-> None, delta |-> None]
             ELSE [interval |-> Some(interval),
                   delta |-> Some(Rat(60 * RatSub(record.value, prev_rec[1].value).num,
                                      RatSub(record.value, prev_rec[1].value).den * interval))]

\* the comparator lambdas: "lt" is the default d < t, "gt" is d > t
comparator(cmp, d, t) == IF cmp = "lt" THEN RatLt(d, t) ELSE RatGt(d, t)

\* TankLogger.__init__
TankLogger(log_interval, max_log_records, alert_rate_threshold, cmp) ==
    [log_interval |-> log_interval,
     next_capture |-> 0,
     alert_rate_threshold |-> alert_rate_threshold,
     maxlen |-> max_log_records,
     records |-> <<>>,
     comparator |-> cmp]

\* deque(maxlen=n).append(x): a full deque drops its leftmost item first
DequeAppend_keep_oldest(records, x, maxlen) ==
    IF Len(records) >= maxlen THEN records ELSE Append(records, x)

DequeAppend_no_evict(records, x, maxlen) == Append(records, x)

DequeAppend(records, x, maxlen) ==
    IF maxlen = 0 THEN records
    ELSE IF Len(records) >= maxlen THEN Append(Tail(records), x)
    ELSE Append(records, x)

\* TankLogger.offer: the new object state and the returned Optional[TankAlert].
\* The three variants before it change the capture test or the next_capture
\* update; none of them returns an alert, as offer itself never does.
offer_ge(self, tank_log_record) ==
    IF tank_log_record.timestamp >= self.next_capture
    THEN [self |-> [self EXCEPT
                      !.records = DequeAppend(self.records, tank_log_record, self.maxlen),
                      !.next_capture = tank_log_record.timestamp + self.log_interval],
          ret |-> None]
    ELSE [self |-> self, ret |-> None]

offer_no_cadence(self, tank_log_record) ==
    IF tank_log_record.timestamp > self.next_capture
    THEN [self |-> [self EXCEPT
                      !.records = DequeAppend(self.records, tank_log_record, self.maxlen),
                      !.next_capture = tank_log_record.timestamp],
          ret |-> None]
    ELSE [self |-> self, ret |-> None]

offer_advance_on_reject(self, tank_log_record) ==
    [self |-> [self EXCEPT
                 !.records = IF tank_log_record.timestamp > self.next_capture
                             THEN DequeAppend(self.records, tank_log_record, self.maxlen)
                             ELSE self.records,
                 !.next_capture = tank_log_record.timestamp + self.log_interval],
     ret |-> None]

\* a variant of offer that takes prev_rec before the append, so the rate is
\* taken against the record stored before
offer_prev_before_append(self, tank_log_record) ==
    IF tank_log_record.timestamp > self.next_capture
    THEN LET prev_rec == IF self.records # <<>> THEN Some(Last(self.records)) ELSE None
             self1 == [self EXCEPT
                         !.records = DequeAppend(self.records, tank_log_record, self.maxlen),
                         !.next_capture = tank_log_record.timestamp + self.log_interval]
             fd == find_delta(tank_log_record, prev_rec)
         IN  IF /\ fd.delta # None
                /\ self.alert_rate_threshold # None
                /\ comparator(self.comparator, fd.delta[1], self.alert_rate_threshold[1])
             THEN [self |-> self1,
                   ret |-> Some(TankAlert(tank_log_record.timestamp,
                                          tank_log_record.value, fd.delta))]
             ELSE [self |-> self1, ret |-> None]
    ELSE [self |-> self, ret |-> None]

offer(self, tank_log_record) ==
    IF tank_log_record.timestamp > self.next_capture
    THEN LET records == DequeAppend(self.records, tank_log_record, self.maxlen)
             self1 == [self EXCEPT
                         !.records = records,
                         !.next_capture = tank_log_record.timestamp + self.log_interval]
             \* read after the append: the tail is the record just stored
             prev_rec == IF records # <<>> THEN Some(Last(records)) ELSE None
         IN  IF prev_rec # None
             THEN LET fd == find_delta(tank_log_record, prev_rec)
                  IN  IF fd.delta # None
                         /\ self.alert_rate_threshold # None
                         /\ comparator(self.comparator, fd.delta[1],
                                       self.alert_rate_threshold[1])
                      THEN [self |-> self1,
                            ret |-> Some(TankAlert(tank_log_record.timestamp,
                                                   tank_log_record.value,
                                                   fd.delta))]
                      ELSE [self |-> self1, ret |-> None]
             ELSE [self |-> self1, ret |-> None]
    ELSE [self |-> self, ret |-> None]

\* TankLogger.offer statement by statement, as a thread executes it.
\* offer_append is the capture test and the append:
\*     if tank_log_record.timestamp > self.next_capture: self.records.append(...)
offer_append(self, tank_log_record) ==
    IF tank_log_record.timestamp > self.next_capture
    THEN [self EXCEPT !.records = DequeAppend(self.records, tank_log_record, self.maxlen)]
    ELSE self

\* offer_advance is the rest of the accepting branch, run on the object as it
\* is then: the next_capture update, prev_rec = self.records[-1], the rate
\* test and the return value
offer_advance(self, tank_log_record) ==
    LET self1 == [self EXCEPT
                    !.next_capture = tank_log_record.timestamp + self.log_interval]
        prev_rec == IF self.records # <<>> THEN Some(Last(self.records)) ELSE None
        fd == find_delta(tank_log_record, prev_rec)
    IN  IF /\ prev_rec # None
           /\ fd.delta # None
           /\ self.alert_rate_threshold # None
           /\ comparator(self.comparator, fd.delta[1], self.alert_rate_threshold[1])
        THEN [self |-> self1,
              ret |-> Some(TankAlert(tank_log_record.timestamp, tank_log_record.value,
                                     fd.delta))]
        ELSE [self |-> self1, ret |-> None]

\* TankLogger.deltas: the loop body applied to records[i..], carrying prev_rec and dlog
RECURSIVE deltas_loop(_, _, _, _)
deltas_loop(records, i, prev_rec, dlog) ==
    IF i > Len(records) THEN dlog
    ELSE LET record == records[i]
         IN  IF prev_rec = None
             THEN deltas_loop(records, i + 1, Some(record), dlog)
             ELSE LET fd == find_delta(record, prev_rec)
                  IN  IF fd.interval = None \/ fd.interval = Some(0)
                      THEN deltas_loop(records, i + 1, prev_rec, dlog)
                      ELSE deltas_loop(records, i + 1, Some(record),
                               Append(dlog,
                                   TankLogRecord(
                                       Rat(2 * prev_rec[1].timestamp + fd.interval[1], 2),
                                       fd.delta[1])))

\* a variant of deltas that never moves prev_rec on: every rate is taken
\* against the first record
RECURSIVE deltas_first_loop(_, _, _)
deltas_first_loop(records, i, dlog) ==
    IF i > Len(records) THEN dlog
    ELSE LET fd == find_delta(records[i], Some(records[1]))
         IN  IF fd.interval = None \/ fd.interval[1] = 0
             THEN deltas_first_loop(records, i + 1, dlog)
             ELSE deltas_first_loop(records, i + 1,
                      Append(dlog,
                          TankLogRecord(Rat(2 * records[1].timestamp + fd.interval[1], 2),
                                        fd.delta[1])))

deltas_against_first(self) == deltas_first_loop(self.records, 2, <<>>)

deltas(self) == deltas_loop(self.records, 1, None, <<>>)

---------------------------------------------------------------------------
(* settings.py *)

LOG_UNITS ==
    [depth |-> "litres", density |-> "density", water_temp |-> "degrees",
     distance |-> "mm"]

\* EMAIL['period']: minimum time in seconds between alert emails
EMAIL_period == 3600

ALERT_THRESHOLDS == [depth |-> F(10000), density |-> Rat(1005, 1000)]

ALERT_RATE_THRESHOLDS == [depth |-> F(-200), density |-> Rat(2, 100)]

---------------------------------------------------------------------------
(* tankmonitor.py *)

CATEGORY_LABELS ==
    [depth |-> "Volume", density |-> "Water Quality",
     water_temp |-> "Water Temperature", distance |-> "Raw Maxbotix Reading"]

Categories == {"depth", "density", "water_temp", "distance"}

\* a variant of TankMonitor.__init__ that gives the water_temp series the
\* depth rate threshold
TankMonitor_loggers_temp_threshold ==
    [k \in {"depth", "density", "water_temp", "distance"} |->
        [i \in 1..3 |->
            TankLogger(<<10, 60, 3600>>[i], 1440,
                       IF k = "density" THEN <<[num |-> 1, den |-> 50]>>
                       ELSE IF k = "distance" THEN <<>>
                       ELSE <<[num |-> -200, den |-> 1]>>,
                       IF k = "density" THEN "gt" ELSE "lt")]]

\* TankMonitor.__init__: self.loggers
TankMonitor_loggers ==
    [depth |->
        <<TankLogger(10, default_max_log_records, Some(ALERT_RATE_THRESHOLDS.depth), "lt"),
          TankLogger(60, default_max_log_records, Some(ALERT_RATE_THRESHOLDS.depth), "lt"),
          TankLogger(3600, default_max_log_records, Some(ALERT_RATE_THRESHOLDS.depth), "lt")>>,
     density |->
        <<TankLogger(10, default_max_log_records, Some(ALERT_RATE_THRESHOLDS.density), "gt"),
          TankLogger(60, default_max_log_records, Some(ALERT_RATE_THRESHOLDS.density), "gt"),
          TankLogger(3600, default_max_log_records, Some(ALERT_RATE_THRESHOLDS.density), "gt")>>,
     water_temp |->
        <<TankLogger(10, default_max_log_records, None, "lt"),
          TankLogger(60, default_max_log_records, None, "lt"),
          TankLogger(3600, default_max_log_records, None, "lt")>>,
     distance |->
        <<TankLogger(10, default_max_log_records, None, "lt"),
          TankLogger(60, default_max_log_records, None, "lt"),
          TankLogger(3600, default_max_log_records, None, "lt")>>]

\* AlertMailer.offer(category, tank_alert) run at time offer_time on the class
\* state mailer = [last_alert, generic_alert_mail, outbox]: the new last_alert
\* and thread-pool queue, and the exception raised, if any.  The three
\* variants before it change the cooldown test or the last_alert update.
AlertMailer_offer_ge(mailer, category, tank_alert, offer_time) ==
    IF mailer.last_alert = None
       \/ offer_time - mailer.last_alert[1] >= EMAIL_period
    THEN [last_alert |-> Some(offer_time),
          outbox |-> Append(mailer.outbox,
                        [category |-> category, alert |-> tank_alert, time |-> offer_time]),
          exc |-> None]
    ELSE [last_alert |-> mailer.last_alert, outbox |-> mailer.outbox, exc |-> None]

AlertMailer_offer_no_stamp(mailer, category, tank_alert, offer_time) ==
    IF mailer.last_alert = None
       \/ offer_time - mailer.last_alert[1] > EMAIL_period
    THEN [last_alert |-> mailer.last_alert,
          outbox |-> Append(mailer.outbox,
                        [category |-> category, alert |-> tank_alert, time |-> offer_time]),
          exc |-> None]
    ELSE [last_alert |-> mailer.last_alert, outbox |-> mailer.outbox, exc |-> None]

AlertMailer_offer_stamp_always(mailer, category, tank_alert, offer_time) ==
    IF mailer.last_alert = None
       \/ offer_time - mailer.last_alert[1] > EMAIL_period
    THEN [last_alert |-> Some(offer_time),
          outbox |-> Append(mailer.outbox,
                        [category |-> category, alert |-> tank_alert, time |-> offer_time]),
          exc |-> None]
    ELSE [last_alert |-> Some(offer_time), outbox |-> mailer.outbox, exc |-> None]

AlertMailer_offer(mailer, category, tank_alert, offer_time) ==
    IF mailer.last_alert = None
       \/ offer_time - mailer.last_alert[1] > EMAIL_period
    THEN IF category \notin {"density", "depth"}
         THEN \* alert_config_by_category[category]
              [last_alert |-> mailer.last_alert, outbox |-> mailer.outbox,
               exc |-> Some("KeyError")]
         ELSE IF mailer.generic_alert_mail = None
         THEN \* None.generate(...)
              [last_alert |-> mailer.last_alert, outbox |-> mailer.outbox,
               exc |-> Some("AttributeError")]
         ELSE [last_alert |-> Some(offer_time),
               outbox |-> Append(mailer.outbox,
                             [category |-> category, alert |-> tank_alert,
                              time |-> offer_time]),
               exc |-> None]
    ELSE [last_alert |-> mailer.last_alert, outbox |-> mailer.outbox, exc |-> None]

\* the orders in which a for loop may walk the set S
Orders(S) ==
    {order \in [1..Cardinality(S) -> S] : \A x \in S : \E i \in DOMAIN order : order[i] = x}

\* one of them
AnOrder(S) == CHOOSE order \in Orders(S) : TRUE

\* a variant of notify_all that keeps only the failed listeners: after a
\* round without a failure nobody is subscribed
notify_all_unsubscribing(listeners, fails, order, msg_dict) ==
    [pushed |-> {<<event_listener, msg_dict>> : event_listener \in listeners},
     event_listeners |-> listeners \cap fails,
     exc |-> None]

\* the for loop of notify_all from position i of the iteration order: a send
\* that raises enters the except clause, where 'Removing listener ' +
\* event_listener adds a str and a connection and raises TypeError, which
\* leaves notify_all before failed_listeners.append and before the set is
\* reassigned
RECURSIVE notify_loop(_, _, _, _, _, _, _)
notify_loop(listeners, fails, order, i, msg_dict, pushed, failed_listeners) ==
    IF i > Len(order)
    THEN [pushed |-> pushed, event_listeners |-> listeners \ failed_listeners,
          exc |-> None]
    ELSE LET event_listener == order[i]
         IN  IF event_listener \in fails
             THEN [pushed |-> pushed, event_listeners |-> listeners,
                   exc |-> Some("TypeError")]
             ELSE notify_loop(listeners, fails, order, i + 1, msg_dict,
                              pushed \cup {<<event_listener, msg_dict>>},
                              failed_listeners)

\* EventConnection.notify_all(msg_dict) on the listener set, walked in the
\* given order, where send() raises for the listeners in fails: the
\* (listener, message) pairs sent, the listener set afterwards and the
\* exception raised, if any
notify_all(listeners, fails, order, msg_dict) ==
    notify_loop(listeners, fails, order, 1, msg_dict, {}, {})

\* a variant of offer_loop that offers the record to the first logger only
offer_loop_first_only(ls, i, log_record) ==
    [loggers |-> [ls EXCEPT ![1] = offer(ls[1], log_record).self], exc |-> None]

\* the for loop of _offer_log_record over self.loggers[category], from index i:
\* `await AlertMailer.offer(alert)` passes one argument to a two-parameter
\* function and raises TypeError
RECURSIVE offer_loop(_, _, _)
offer_loop(ls, i, log_record) ==
    IF i > Len(ls) THEN [loggers |-> ls, exc |-> None]
    ELSE LET res == offer(ls[i], log_record)
             ls1 == [ls EXCEPT ![i] = res.self]
         IN  IF res.ret # None
             THEN [loggers |-> ls1, exc |-> Some("TypeError")]
             ELSE offer_loop(ls1, i + 1, log_record)

\* a variant of level_alerts that also alerts at the threshold itself
level_alerts_inclusive(category, timestamp, value) ==
    IF category = "depth" /\ ~RatGt(value, ALERT_THRESHOLDS.depth)
    THEN <<[category |-> "depth", alert |-> TankAlert(timestamp, value, None)]>>
    ELSE IF category = "density" /\ ~RatLt(value, ALERT_THRESHOLDS.density)
    THEN <<[category |-> "density", alert |-> TankAlert(timestamp, value, None)]>>
    ELSE <<>>

\* the alerts _offer_log_record offers for the level of one sample
level_alerts(category, timestamp, value) ==
    IF category = "depth" /\ RatLt(value, ALERT_THRESHOLDS.depth)
    THEN <<[category |-> "depth", alert |-> TankAlert(timestamp, value, None)]>>
    ELSE IF category = "density" /\ RatGt(value, ALERT_THRESHOLDS.density)
    THEN <<[category |-> "density", alert |-> TankAlert(timestamp, value, None)]>>
    ELSE <<>>

\* TankMonitor._offer_log_record(category, timestamp, value), run to its end
\* by the event loop at time offer_time; m is the state it reads
\* [loggers, last_alert, generic_alert_mail, outbox, event_listeners,
\* send_fails] and order the order in which notify_all walks the listeners
offer_log_record(m, category, timestamp, value, offer_time) ==
    LET log_record == TankLogRecord(timestamp, value)
        offered == level_alerts(category, timestamp, value)
        mail == IF offered = <<>>
                THEN [last_alert |-> m.last_alert, outbox |-> m.outbox, exc |-> None]
                ELSE AlertMailer_offer(m, offered[1].category, offered[1].alert,
                                       offer_time)
        unchanged == [loggers |-> m.loggers, event_listeners |-> m.event_listeners,
                      pushed |-> {}]
    IN  IF mail.exc # None
        THEN mail @@ unchanged @@ [offered |-> offered]
        ELSE IF category \notin DOMAIN m.loggers
        THEN \* self.loggers[category]
             [last_alert |-> mail.last_alert, outbox |-> mail.outbox,
              exc |-> Some("KeyError")] @@ unchanged @@ [offered |-> offered]
        ELSE LET loop == offer_loop(m.loggers[category], 1, log_record)
                 loggers1 == [m.loggers EXCEPT ![category] = loop.loggers]
             IN  IF loop.exc # None
                 THEN [last_alert |-> mail.last_alert, outbox |-> mail.outbox,
                       exc |-> loop.exc, loggers |-> loggers1,
                       event_listeners |-> m.event_listeners, pushed |-> {},
                       offered |-> offered]
                 ELSE LET n == notify_all(m.event_listeners, m.send_fails, m.order,
                                   [event |-> "log_value",
                                    unit |-> LOG_UNITS[category],
                                    timestamp |-> timestamp,
                                    category |-> category,
                                    value |-> value])
                      IN  [last_alert |-> mail.last_alert, outbox |-> mail.outbox,
                           exc |-> n.exc, loggers |-> loggers1,
                           event_listeners |-> n.event_listeners,
                           pushed |-> n.pushed, offered |-> offered]

\* a variant of LogDownloadHandler.get that answers with an empty series
\* when the category or the interval has none
LogDownloadHandler_get_empty(ls, category, logger_interval, want_deltas) ==
    LET matching == IF category \in DOMAIN ls
                    THEN SelectSeq(ls[category],
                                   LAMBDA l : l.log_interval = logger_interval)
                    ELSE <<>>
        records == IF matching = <<>> THEN <<>>
                   ELSE IF want_deltas THEN deltas(matching[1])
                   ELSE matching[1].records
    IN  [response |-> Some([key |-> IF category \in DOMAIN CATEGORY_LABELS
                                    THEN CATEGORY_LABELS[category] ELSE category,
                            values |-> [i \in 1..Len(records) |->
                                          <<records[i].timestamp, records[i].value>>]]),
         exc |-> None]

\* LogDownloadHandler.get(category, logger_interval) with format nvd3 and a
\* numeric logger_interval (its int() value): the response body, or the
\* exception raised
LogDownloadHandler_get(ls, category, logger_interval, want_deltas) ==
    LET matching == SelectSeq(ls[category], LAMBDA l : l.log_interval = logger_interval)
    IN  IF category \notin DOMAIN ls
        THEN \* loggers[category]
             [response |-> None, exc |-> Some("KeyError")]
        ELSE IF matching = <<>>
        THEN [response |-> None, exc |-> Some("Exception")]
        ELSE LET logger == matching[1]
                 records == IF want_deltas THEN deltas(logger) ELSE logger.records
             IN  [response |-> Some([key |-> CATEGORY_LABELS[category],
                                     values |-> [i \in 1..Len(records) |->
                                                   <<records[i].timestamp,
                                                     records[i].value>>]]),
                  exc |-> None]

\* nothing emitted
NoOut == [op |-> "none", offered |-> <<>>, pushed |-> {}, response |-> None,
          exc |-> None]

\* the application right after TankMonitor.__init__, with the alert template
\* loaded; the run may advance the clock max_ticks times and take max_samples samples
InitMonitor(max_ticks, max_samples) ==
    /\ now = 1
    /\ ticks_left = max_ticks
    /\ samples_left = max_samples
    /\ tasks = <<>>
    /\ loggers = TankMonitor_loggers
    /\ last_alert = None
    /\ generic_alert_mail = Some("templates/generic_alert.txt")
    /\ outbox = <<>>
    /\ event_listeners = {}
    /\ out = NoOut
    /\ send_fails = {}
    /\ valve = [_valve_state |-> FALSE, _transition_time |-> None, gpio |-> 0]
    /\ sessions = {}
    /\ log_level = "INFO"
    /\ log_level_reset_at = None

\* asyncio.run(main()): the threads that run scheduled coroutines, one event
\* loop.  Runners_pool is a variant where two threads take tasks off the queue.
Runners_pool == {"loop", "worker"}

Runners == {"loop"}

\* main(): the reader threads as they are started, before their first read,
\* and no coroutine running
InitThreads ==
    /\ threads = [maxbotix |-> [pc |-> "read", read_count |-> 0, val |-> 0],
                  densitrak |-> [pc |-> "send_density"]]
    /\ frame = [r \in Runners |-> None]
    /\ ingested = 0
    /\ SERIAL_LOCK = None
    /\ stop_reading = [maxbotix |-> FALSE, densitrak |-> FALSE]

---------------------------------------------------------------------------
(* SpecLogger: one TankLogger under any sequence of offers and reads *)

MaxCap == 3

Cadences == {0, 10, 60}

RateThresholds == {None, Some(F(-2)), Some(Rat(1, 50))}

R(t, v) == TankLogRecord(t, F(v))

\* the records a caller may offer
Samples ==
    {R(0, 100), R(30, 90), R(65, 80), R(130, 70), R(200, 60),
     R(0, 50), R(60, 42), R(40, 95), R(90, 75)}

\* the offers of the worked example: capacity 3, cadence 60
Scenario == <<R(0, 100), R(30, 90), R(65, 80), R(130, 70), R(200, 60)>>

InitLogger ==
    /\ tl \in {TankLogger(c, n, th, cmp) :
                 c \in Cadences, n \in 1..MaxCap, th \in RateThresholds,
                 cmp \in {"lt", "gt"}}
    /\ accepted = <<>>
    /\ call = [op |-> "new", arg |-> None, ret |-> None]
    /\ scenario_pos = 0
    /\ InitMonitor(0, 0)
    /\ InitThreads

LoggerOffer(r) ==
    LET res == offer(tl, r)
    IN  /\ tl' = res.self
        /\ accepted' = IF r.timestamp > tl.next_capture
                       THEN Append(accepted, r) ELSE accepted
        /\ call' = [op |-> "offer", arg |-> Some(r), ret |-> res.ret]
        /\ scenario_pos' = IF /\ scenario_pos >= 0
                              /\ scenario_pos < Len(Scenario)
                              /\ r = Scenario[scenario_pos + 1]
                           THEN scenario_pos + 1 ELSE -1
        /\ UNCHANGED <<mvars, xvars>>
        /\ UNCHANGED tvars

\* a variant of the deltas read that takes the records out of the deque as it
\* walks them
LoggerDeltas_draining ==
    /\ call' = [op |-> "deltas", arg |-> None, ret |-> deltas(tl)]
    /\ tl' = [tl EXCEPT !.records = <<>>]
    /\ UNCHANGED <<accepted, scenario_pos>>
    /\ UNCHANGED <<mvars, xvars>>
    /\ UNCHANGED tvars

\* a read of the deltas property of tl
LoggerDeltas ==
    /\ call' = [op |-> "deltas", arg |-> None, ret |-> deltas(tl)]
    /\ UNCHANGED <<tl, accepted, scenario_pos>>
    /\ UNCHANGED <<mvars, xvars>>
    /\ UNCHANGED tvars

NextLogger ==
    \/ \E r \in Samples : LoggerOffer(r)
    \/ LoggerDeltas

SpecLogger == InitLogger /\ [][NextLogger]_vars

---------------------------------------------------------------------------
(* SpecDelta: find_delta applied to any record and any previous record or  *)
(* None                                                                    *)

InitDelta ==
    /\ tl = TankLogger(10, default_max_log_records, None, "lt")
    /\ accepted = <<>>
    /\ scenario_pos = 0
    /\ call \in {[op |-> "args", arg |-> Some(<<record, prev_rec>>), ret |-> None] :
                    record \in Samples,
                    prev_rec \in {None} \cup {Some(p) : p \in Samples}}
    /\ InitMonitor(0, 0)
    /\ InitThreads

\* interval, delta = find_delta(record, prev_rec)
ApplyFindDelta ==
    /\ call.op = "args"
    /\ call' = [op |-> "find_delta", arg |-> call.arg,
                ret |-> Some(find_delta(call.arg[1][1], call.arg[1][2]))]
    /\ UNCHANGED <<tl, accepted, scenario_pos>>
    /\ UNCHANGED <<mvars, xvars>>
    /\ UNCHANGED tvars

NextDelta == ApplyFindDelta

SpecDelta == InitDelta /\ [][NextDelta]_vars

---------------------------------------------------------------------------
(* The running application.  The log_* methods schedule samples, the event  *)
(* loop runs each scheduled _offer_log_record to its end, listeners connect *)
(* and disconnect, and the dashboard queries the logs.                      *)
(* SpecAlerts is the ingestion and alert path alone; Spec is the whole      *)
(* application over a shorter run.                                          *)

MaxTicks == 4
MaxSamples == 2
AppTicks == 1
AppSamples == 2
MaxQueue == 1

\* how far the clock moves between two steps: half an alert period
TickSteps == {EMAIL_period \div 2}

Conns == {"c1"}

\* the values the sensors deliver, per category
Readings ==
    [depth |-> {F(9500), F(10000)},
     density |-> {Rat(1005, 1000), Rat(101, 100)},
     water_temp |-> {F(20)},
     distance |-> {F(2000)}]

QueryIntervals == {5, 60}

IdleLogger ==
    /\ tl = TankLogger(10, default_max_log_records, None, "lt")
    /\ accepted = <<>>
    /\ call = [op |-> "new", arg |-> None, ret |-> None]
    /\ scenario_pos = 0

InitAlerts == InitMonitor(MaxTicks, MaxSamples) /\ IdleLogger /\ InitThreads

Init == InitMonitor(AppTicks, AppSamples) /\ IdleLogger /\ InitThreads

Tick(d) ==
    /\ ticks_left > 0
    /\ now' = now + d
    /\ ticks_left' = ticks_left - 1
    /\ out' = NoOut
    /\ UNCHANGED <<samples_left, tasks, loggers, last_alert, generic_alert_mail, outbox,
                   event_listeners>>
    /\ UNCHANGED <<lvars, xvars>>
    /\ UNCHANGED tvars

\* log_tank_depth / log_density / log_water_temp / log_distance:
\* asyncio.ensure_future(self._offer_log_record(category, time(), value))
log_value(category, value) ==
    /\ samples_left > 0
    /\ Len(tasks) < MaxQueue
    /\ tasks' = Append(tasks, [category |-> category, timestamp |-> now, value |-> value])
    /\ samples_left' = samples_left - 1
    /\ out' = NoOut
    /\ UNCHANGED <<now, ticks_left, loggers, last_alert, generic_alert_mail, outbox,
                   event_listeners>>
    /\ UNCHANGED <<lvars, xvars>>
    /\ UNCHANGED tvars

\* the event loop runs the oldest scheduled _offer_log_record
RunTask ==
    /\ tasks # <<>>
    /\ \E order \in Orders(event_listeners) :
       LET t == Head(tasks)
           res == offer_log_record(
                      [loggers |-> loggers, last_alert |-> last_alert,
                       generic_alert_mail |-> generic_alert_mail, outbox |-> outbox,
                       event_listeners |-> event_listeners,
                       send_fails |-> send_fails, order |-> order],
                      t.category, t.timestamp, t.value, now)
       IN  /\ tasks' = Tail(tasks)
           /\ loggers' = res.loggers
           /\ last_alert' = res.last_alert
           /\ outbox' = res.outbox
           /\ event_listeners' = res.event_listeners
           /\ out' = [op |-> "offer_log_record", offered |-> res.offered,
                      pushed |-> res.pushed, response |-> None, exc |-> res.exc]
    /\ UNCHANGED <<now, ticks_left, samples_left, generic_alert_mail>>
    /\ UNCHANGED <<lvars, xvars>>
    /\ UNCHANGED tvars

\* S.remove(x) of a Python set: the set afterwards, and KeyError when x is
\* not an element
set_remove(S, x) ==
    IF x \in S THEN [set |-> S \ {x}, exc |-> None]
    ELSE [set |-> S, exc |-> Some("KeyError")]

\* S.add(x) of a Python set
set_add(S, x) == S \cup {x}

\* EventConnection.on_open: the framework calls it once for a new session
on_open(c) ==
    /\ c \notin sessions
    /\ sessions' = sessions \cup {c}
    /\ event_listeners' = set_add(event_listeners, c)
    /\ out' = NoOut
    /\ UNCHANGED <<now, ticks_left, samples_left, tasks, loggers, last_alert,
                   generic_alert_mail, outbox>>
    /\ UNCHANGED <<send_fails, SERIAL_LOCK, stop_reading, valve, svars>>
    /\ UNCHANGED <<lvars, tvars>>

\* EventConnection.on_close: the framework calls it once when an open
\* session ends
on_close(c) ==
    /\ c \in sessions
    /\ sessions' = sessions \ {c}
    /\ LET res == set_remove(event_listeners, c)
       IN  /\ event_listeners' = res.set
           /\ out' = [NoOut EXCEPT !.exc = res.exc]
    /\ UNCHANGED <<now, ticks_left, samples_left, tasks, loggers, last_alert,
                   generic_alert_mail, outbox>>
    /\ UNCHANGED <<send_fails, SERIAL_LOCK, stop_reading, valve, svars>>
    /\ UNCHANGED <<lvars, tvars>>

\* GET /logger/<category>/<logger_interval>[?deltas=1]
Query(category, logger_interval, want_deltas) ==
    /\ LET res == LogDownloadHandler_get(loggers, category, logger_interval, want_deltas)
       IN  out' = [op |-> "get", offered |-> <<>>, pushed |-> {},
                   response |-> res.response, exc |-> res.exc]
    /\ UNCHANGED <<now, ticks_left, samples_left, tasks, loggers, last_alert,
                   generic_alert_mail, outbox, event_listeners>>
    /\ UNCHANGED <<lvars, xvars>>
    /\ UNCHANGED tvars

NextAlerts ==
    \/ \E d \in TickSteps : Tick(d)
    \/ \E category \in Categories : \E value \in Readings[category] :
           log_value(category, value)
    \/ RunTask

SpecAlerts == InitAlerts /\ [][NextAlerts]_vars

Next ==
    \/ NextAlerts
    \/ \E c \in Conns : on_open(c)
    \/ \E c \in Conns : on_close(c)
    \/ \E category \in Categories : \E i \in QueryIntervals : \E d \in BOOLEAN :
           Query(category, i, d)

Spec == Init /\ [][Next]_vars

---------------------------------------------------------------------------
(* SpecThreads: the two reader threads and the event loop, statement by    *)
(* statement.  MaxbotixHandler.read and DensitrakHandler.read run on their *)
(* own threads and call the log_* methods; the loop thread takes scheduled *)
(* _offer_log_record calls off its queue and executes them.  A step of any *)
(* thread may come between two statements of any other.                    *)

\* how many readings the Maxbotix and how many values the Densitrak deliver
\* in a run, and how often the clock moves
MaxbotixReads == 5
DensitrakSends == 2
ThreadTicks == 1

\* the four digits the Maxbotix sends after 'R'
MaxbotixVals == {100}

\* the values DensitrakHandler.send_command decodes: density, degrees Fahrenheit
DensitrakVals == [send_density |-> {Rat(101, 100)}, send_temp |-> {F(68)}]

\* MaxbotixHandler.convert with settings.MAXBOTICS:
\* calibrate_m * val + calibrate_b = -0.037453 * val + 107.1161
convert(val) == Rat(107116100 - 37453 * val, 1000000)

\* DensitrakHandler.read: (5.0 / 9) * (fahrenheit - 32.0)
to_celsius(fahrenheit) == Rat(5 * (fahrenheit.num - 32 * fahrenheit.den), 9 * fahrenheit.den)

InitThreadsSpec == InitMonitor(ThreadTicks, DensitrakSends) /\ IdleLogger /\ InitThreads

\* the state the threads share
Shared ==
    [tasks |-> tasks, loggers |-> loggers, last_alert |-> last_alert,
     generic_alert_mail |-> generic_alert_mail, outbox |-> outbox,
     event_listeners |-> event_listeners, send_fails |-> send_fails,
     order |-> AnOrder(event_listeners)]

\* asyncio.ensure_future(self._offer_log_record(category, time(), value)) in a
\* thread whose event loop is the application's: create_task puts the call on
\* the loop's queue and returns.  ensure_future_inline is a variant that
\* runs the call to its end in the calling thread before it returns.
ensure_future_inline(m, coro, offer_time) ==
    LET res == offer_log_record(m, coro.category, coro.timestamp, coro.value, offer_time)
    IN  [m EXCEPT !.loggers = res.loggers, !.last_alert = res.last_alert,
                  !.outbox = res.outbox, !.event_listeners = res.event_listeners]

ensure_future(m, coro, offer_time) == [m EXCEPT !.tasks = Append(m.tasks, coro)]

\* a log_* method called by a reader thread at time now
log_call(category, value) ==
    LET m == ensure_future(Shared,
                 [category |-> category, timestamp |-> now, value |-> value], now)
    IN  /\ tasks' = m.tasks
        /\ loggers' = m.loggers
        /\ last_alert' = m.last_alert
        /\ outbox' = m.outbox
        /\ event_listeners' = m.event_listeners
        /\ samples_left' = IF category \in {"density", "water_temp"}
                           THEN samples_left - 1 ELSE samples_left
        /\ out' = NoOut
        /\ UNCHANGED <<now, ticks_left, generic_alert_mail, frame, ingested>>
        /\ UNCHANGED <<lvars, xvars>>

\* SERIAL_LOCK is held by MaxbotixHandler.read for one whole reading, so
\* between its two log calls; send_command takes and releases it in one step
MaxbotixHoldsLock == threads.maxbotix.pc # "read"

\* MaxbotixHandler.read: 'R' and four digits arrive, read_count += 1, and the
\* first log call of the reading: log_tank_depth(self.convert(val)) on every
\* fifth reading, else log_distance(int(val)).  The serial read touches
\* nothing the other threads see and is taken together with that call.
MaxbotixRead(val) ==
    /\ threads.maxbotix.pc = "read"
    /\ threads.maxbotix.read_count < MaxbotixReads
    /\ LET read_count == threads.maxbotix.read_count + 1
       IN  IF read_count % 5 = 0
           THEN /\ log_call("depth", convert(val))
                /\ threads' = [threads EXCEPT !.maxbotix =
                       [pc |-> "log_distance", read_count |-> read_count, val |-> val]]
           ELSE /\ log_call("distance", F(val))
                /\ threads' = [threads EXCEPT !.maxbotix =
                       [pc |-> "read", read_count |-> read_count, val |-> val]]

\* self.tank_monitor.log_distance(int(val)) after log_tank_depth, then the
\* lock is released
MaxbotixLogDistance ==
    /\ threads.maxbotix.pc = "log_distance"
    /\ log_call("distance", F(threads.maxbotix.val))
    /\ threads' = [threads EXCEPT !.maxbotix.pc = "read"]

\* DensitrakHandler.read: self.tank_monitor.log_density(self.send_command(...))
DensitrakLogDensity(val) ==
    /\ threads.densitrak.pc = "send_density"
    /\ ~MaxbotixHoldsLock
    /\ samples_left > 0
    /\ log_call("density", val)
    /\ threads' = [threads EXCEPT !.densitrak.pc = "send_temp"]

\* DensitrakHandler.read: self.tank_monitor.log_water_temp((5.0 / 9) *
\* (self.send_command(...) - 32.0)), then sleep(2)
DensitrakLogWaterTemp(val) ==
    /\ threads.densitrak.pc = "send_temp"
    /\ ~MaxbotixHoldsLock
    /\ samples_left > 0
    /\ log_call("water_temp", to_celsius(val))
    /\ threads' = [threads EXCEPT !.densitrak.pc = "send_density"]

\* the runner r moves on in the _offer_log_record call it executes
Goto(r, f) == frame' = [frame EXCEPT ![r] = Some(f)]

\* the for loop of _offer_log_record moves to the logger after f.i, or to
\* notify_all after the last one
LoopOn(f) ==
    IF f.i < Len(loggers[f.category])
    THEN [f EXCEPT !.pc = "append", !.i = f.i + 1]
    ELSE [f EXCEPT !.pc = "notify"]

\* a runner takes the oldest scheduled call off the queue and executes it up
\* to the cooldown test of AlertMailer.offer: the level check, offer_time =
\* time(), the read of last_alert and the comparison
RunStart(r) ==
    /\ frame[r] = None
    /\ tasks # <<>>
    /\ tasks' = Tail(tasks)
    /\ LET t == Head(tasks)
           f == [category |-> t.category, timestamp |-> t.timestamp, value |-> t.value,
                 pc |-> "append", i |-> 1, offer_time |-> 0, seen |-> None]
       IN  IF level_alerts(t.category, t.timestamp, t.value) # <<>>
              /\ (last_alert = None \/ now - last_alert[1] > EMAIL_period)
           THEN Goto(r, [f EXCEPT !.pc = "stamp", !.i = 0, !.offer_time = now,
                                  !.seen = Some(last_alert)])
           ELSE Goto(r, f)
    /\ out' = NoOut
    /\ UNCHANGED <<now, ticks_left, samples_left, loggers, last_alert, generic_alert_mail,
                   outbox, event_listeners, threads, ingested>>
    /\ UNCHANGED <<lvars, xvars>>

\* the body of the if in AlertMailer.offer: render the mail, set last_alert,
\* hand send_message to the thread pool; without the template generate()
\* raises and ends the call
StepStamp(r) ==
    /\ frame[r] # None
    /\ frame[r][1].pc = "stamp"
    /\ LET f == frame[r][1]
       IN  IF generic_alert_mail = None
           THEN /\ frame' = [frame EXCEPT ![r] = None]
                /\ UNCHANGED <<last_alert, outbox>>
                /\ out' = [op |-> "offer_log_record",
                           offered |-> level_alerts(f.category, f.timestamp, f.value),
                           pushed |-> {}, response |-> None,
                           exc |-> Some("AttributeError")]
           ELSE /\ last_alert' = Some(f.offer_time)
                /\ outbox' = Append(outbox,
                       [category |-> f.category,
                        alert |-> TankAlert(f.timestamp, f.value, None),
                        time |-> f.offer_time])
                /\ Goto(r, [f EXCEPT !.pc = "append", !.i = 1])
                /\ out' = NoOut
    /\ UNCHANGED <<now, ticks_left, samples_left, tasks, loggers, generic_alert_mail,
                   event_listeners, threads, ingested>>
    /\ UNCHANGED <<lvars, xvars>>

\* logger.offer(log_record) for logger f.i: the capture test and the append
StepAppend(r) ==
    /\ frame[r] # None
    /\ frame[r][1].pc = "append"
    /\ LET f == frame[r][1]
           logger == loggers[f.category][f.i]
           log_record == TankLogRecord(f.timestamp, f.value)
       IN  IF log_record.timestamp > logger.next_capture
           THEN /\ loggers' = [loggers EXCEPT ![f.category][f.i] =
                                 offer_append(logger, log_record)]
                /\ Goto(r, [f EXCEPT !.pc = "advance",
                                     !.seen = Some(logger.next_capture)])
           ELSE /\ UNCHANGED loggers
                /\ Goto(r, LoopOn(f))
    /\ out' = NoOut
    /\ UNCHANGED <<now, ticks_left, samples_left, tasks, last_alert, generic_alert_mail,
                   outbox, event_listeners, threads, ingested>>
    /\ UNCHANGED <<lvars, xvars>>

\* logger.offer(log_record) for logger f.i after the append: next_capture and
\* the returned alert; `await AlertMailer.offer(alert)` raises TypeError
StepAdvance(r) ==
    /\ frame[r] # None
    /\ frame[r][1].pc = "advance"
    /\ LET f == frame[r][1]
           res == offer_advance(loggers[f.category][f.i],
                                TankLogRecord(f.timestamp, f.value))
       IN  /\ loggers' = [loggers EXCEPT ![f.category][f.i] = res.self]
           /\ IF res.ret # None
              THEN /\ frame' = [frame EXCEPT ![r] = None]
                   /\ out' = [op |-> "offer_log_record",
                              offered |-> level_alerts(f.category, f.timestamp, f.value),
                              pushed |-> {}, response |-> None,
                              exc |-> Some("TypeError")]
              ELSE /\ Goto(r, LoopOn(f))
                   /\ out' = NoOut
    /\ UNCHANGED <<now, ticks_left, samples_left, tasks, last_alert, generic_alert_mail,
                   outbox, event_listeners, threads, ingested>>
    /\ UNCHANGED <<lvars, xvars>>

\* EventConnection.notify_all(...) and the end of _offer_log_record
StepNotify(r) ==
    /\ frame[r] # None
    /\ frame[r][1].pc = "notify"
    /\ \E order \in Orders(event_listeners) :
       LET f == frame[r][1]
           n == notify_all(event_listeners, send_fails, order,
                    [event |-> "log_value", unit |-> LOG_UNITS[f.category],
                     timestamp |-> f.timestamp, category |-> f.category,
                     value |-> f.value])
       IN  /\ event_listeners' = n.event_listeners
           /\ out' = [op |-> "offer_log_record",
                      offered |-> level_alerts(f.category, f.timestamp, f.value),
                      pushed |-> n.pushed, response |-> None, exc |-> n.exc]
    /\ frame' = [frame EXCEPT ![r] = None]
    /\ ingested' = ingested + 1
    /\ UNCHANGED <<now, ticks_left, samples_left, tasks, loggers, last_alert,
                   generic_alert_mail, outbox, threads>>
    /\ UNCHANGED <<lvars, xvars>>

\* half an alert period passes between two bursts of readings: nothing is
\* scheduled or running and the Maxbotix is between two readings
IdleTick(d) ==
    /\ tasks = <<>>
    /\ \A r \in Runners : frame[r] = None
    /\ ~MaxbotixHoldsLock
    /\ Tick(d)

\* the steps of the reader threads
NextReaders ==
    \/ \E val \in MaxbotixVals : MaxbotixRead(val)
    \/ MaxbotixLogDistance
    \/ \E val \in DensitrakVals.send_density : DensitrakLogDensity(val)
    \/ \E val \in DensitrakVals.send_temp : DensitrakLogWaterTemp(val)

\* the steps of the event loop
NextLoop ==
    \/ \E r \in Runners : RunStart(r)
    \/ \E r \in Runners : StepStamp(r)
    \/ \E r \in Runners : StepAppend(r)
    \/ \E r \in Runners : StepAdvance(r)
    \/ \E r \in Runners : StepNotify(r)

NextThreads ==
    \/ \E d \in TickSteps : IdleTick(d)
    \/ NextReaders
    \/ NextLoop

SpecThreads == InitThreadsSpec /\ [][NextThreads]_vars

\* the event loop keeps running: a step it can take is taken
FairSpecThreads == SpecThreads /\ WF_vars(NextLoop)

---------------------------------------------------------------------------
(* SpecEvents: the live listeners with sends that can fail.  Samples are    *)
(* scheduled and ingested while connections open, close and break.         *)

EventSamples == 2

EventConns == {"c1", "c2"}

InitEvents == InitMonitor(0, EventSamples) /\ IdleLogger /\ InitThreads

\* the session behind the subscribed connection c breaks: from now on
\* event_listener.send(...) raises
send_breaks(c) ==
    /\ c \in event_listeners
    /\ c \notin send_fails
    /\ send_fails' = send_fails \cup {c}
    /\ out' = NoOut
    /\ UNCHANGED <<now, ticks_left, samples_left, tasks, loggers, last_alert,
                   generic_alert_mail, outbox, event_listeners>>
    /\ UNCHANGED <<SERIAL_LOCK, stop_reading, valve, sessions, svars>>
    /\ UNCHANGED <<lvars, tvars>>

NextEvents ==
    \/ \E category \in {"distance", "water_temp"} : \E value \in Readings[category] :
           log_value(category, value)
    \/ RunTask
    \/ \E c \in EventConns : on_open(c)
    \/ \E c \in EventConns : on_close(c)
    \/ \E c \in EventConns : send_breaks(c)

SpecEvents == InitEvents /\ [][NextEvents]_vars

---------------------------------------------------------------------------
(* SpecMail: the alert path with its failures.  The template file may be   *)
(* absent when the class body of AlertMailer runs, and a send_message job  *)
(* may fail in the thread pool.                                            *)

MailSamples == 2

MailConns == {"c1"}

\* the application at start-up; generic_alert_mail is None when
\* templates/generic_alert.txt does not exist
InitMail ==
    /\ now = 1
    /\ ticks_left = 0
    /\ samples_left = MailSamples
    /\ tasks = <<>>
    /\ loggers = TankMonitor_loggers
    /\ last_alert = None
    /\ generic_alert_mail \in {None, Some("templates/generic_alert.txt")}
    /\ outbox = <<>>
    /\ event_listeners = {}
    /\ out = NoOut
    /\ send_fails = {}
    /\ valve = [_valve_state |-> FALSE, _transition_time |-> None, gpio |-> 0]
    /\ sessions = {}
    /\ log_level = "INFO"
    /\ log_level_reset_at = None
    /\ IdleLogger
    /\ InitThreads

\* a thread of thread_pool runs the oldest job, AlertMailer.send_message:
\* it returns, or the SMTP exchange raises; the exception stays in the
\* Future that submit returned, which nobody reads
send_message(raises) ==
    /\ outbox # <<>>
    /\ outbox' = Tail(outbox)
    /\ out' = [op |-> "send_message", offered |-> <<>>, pushed |-> {}, response |-> None,
               exc |-> IF raises THEN Some("SMTPException") ELSE None]
    /\ UNCHANGED <<now, ticks_left, samples_left, tasks, loggers, last_alert,
                   generic_alert_mail, event_listeners>>
    /\ UNCHANGED <<lvars, tvars, xvars>>

NextMail ==
    \/ \E category \in {"depth", "density"} : \E value \in Readings[category] :
           log_value(category, value)
    \/ RunTask
    \/ \E raises \in BOOLEAN : send_message(raises)
    \/ \E c \in MailConns : on_open(c)

SpecMail == InitMail /\ [][NextMail]_vars

---------------------------------------------------------------------------
(* SpecCallers: _offer_log_record and GET /logger/... called with any      *)
(* category, also one that TankMonitor.__init__ gave no loggers.           *)

CallerSamples == 2

AnyCategories == Categories \cup {"ph"}

AnyReadings == Readings @@ [ph |-> {F(7)}]

CallerConns == {"c1"}

InitCallers == InitMonitor(0, CallerSamples) /\ IdleLogger /\ InitThreads

NextCallers ==
    \/ \E category \in AnyCategories : \E value \in AnyReadings[category] :
           log_value(category, value)
    \/ RunTask
    \/ \E c \in CallerConns : on_open(c)
    \/ \E category \in AnyCategories : \E i \in QueryIntervals : \E d \in BOOLEAN :
           Query(category, i, d)

SpecCallers == InitCallers /\ [][NextCallers]_vars

---------------------------------------------------------------------------
(* SpecServe: SpecThreads with the dashboard's queries.  The HTTP server   *)
(* runs on the event loop, so LogDownloadHandler.get is one more callback  *)
(* of the loop thread, run from its first statement to its last.           *)

ServedCategories == {"distance"}

ServedIntervals == {10}

\* the runner r is between two callbacks and runs LogDownloadHandler.get
ServeQuery(r, category, logger_interval, want_deltas) ==
    /\ frame[r] = None
    /\ Query(category, logger_interval, want_deltas)

NextServe ==
    \/ NextThreads
    \/ \E r \in Runners : \E category \in ServedCategories :
       \E i \in ServedIntervals : \E d \in BOOLEAN :
           ServeQuery(r, category, i, d)

SpecServe == InitThreadsSpec /\ [][NextServe]_vars

---------------------------------------------------------------------------
(* SpecSerial: the two read loops and SERIAL_LOCK, statement by statement. *)
(* Each reader thread tests stop_reading, takes the lock, talks to its     *)
(* serial port, releases the lock and sleeps; shutdown() may be called on  *)
(* either handler at any time.  The scheduled samples stay on the queue.   *)

\* how many readings the Maxbotix and how many values the Densitrak deliver
SerialReads == 5
SerialSends == 2

\* while not self.stop_reading
loop_continues_always(stop) == TRUE

loop_continues(stop) == ~stop

\* Lock.acquire returns only when nobody holds the lock; Lock_free_always is
\* a variant that never waits
Lock_free_always(lock) == TRUE

Lock_free(lock) == lock = None

InitSerial ==
    /\ InitMonitor(0, SerialSends)
    /\ IdleLogger
    /\ threads = [maxbotix |-> [pc |-> "while", read_count |-> 0, val |-> 0],
                  densitrak |-> [pc |-> "while", val |-> F(0)]]
    /\ frame = [r \in Runners |-> None]
    /\ ingested = 0
    /\ SERIAL_LOCK = None
    /\ stop_reading = [maxbotix |-> FALSE, densitrak |-> FALSE]

\* a step of a reader thread that touches nothing the application shares
ThreadLocal ==
    /\ out' = NoOut
    /\ UNCHANGED <<now, ticks_left, samples_left, tasks, loggers, last_alert,
                   generic_alert_mail, outbox, event_listeners>>
    /\ UNCHANGED <<frame, ingested, send_fails, valve, sessions, svars>>
    /\ UNCHANGED lvars

\* MaxbotixHandler.shutdown / DensitrakHandler.shutdown: self.stop_reading = True
shutdown(h) ==
    /\ ~stop_reading[h]
    /\ stop_reading' = [stop_reading EXCEPT ![h] = TRUE]
    /\ ThreadLocal
    /\ UNCHANGED <<threads, SERIAL_LOCK>>

\* MaxbotixHandler.read: the test of the while loop; the thread ends when
\* the loop is left
Maxbotix_while ==
    /\ threads.maxbotix.pc = "while"
    /\ threads' = [threads EXCEPT !.maxbotix.pc =
                      IF loop_continues(stop_reading.maxbotix) THEN "acquire" ELSE "done"]
    /\ ThreadLocal
    /\ UNCHANGED <<SERIAL_LOCK, stop_reading>>

\* with SERIAL_LOCK:
Maxbotix_acquire ==
    /\ threads.maxbotix.pc = "acquire"
    /\ Lock_free(SERIAL_LOCK)
    /\ SERIAL_LOCK' = Some("maxbotix")
    /\ threads' = [threads EXCEPT !.maxbotix.pc = "exchange"]
    /\ ThreadLocal
    /\ UNCHANGED stop_reading

\* val = self.serial_port.read() and, after b'R', read(4) and read_count += 1:
\* a reading arrives, or nothing does before the timeout, or the port raises
Maxbotix_exchange(outcome, val) ==
    /\ threads.maxbotix.pc = "exchange"
    /\ IF outcome = "reading"
       THEN /\ threads.maxbotix.read_count < SerialReads
            /\ LET read_count == threads.maxbotix.read_count + 1
               IN  threads' = [threads EXCEPT !.maxbotix =
                      [pc |-> IF read_count % 5 = 0 THEN "log_tank_depth"
                              ELSE "log_distance",
                       read_count |-> read_count, val |-> val]]
       ELSE threads' = [threads EXCEPT !.maxbotix.pc = "release"]
    /\ ThreadLocal
    /\ UNCHANGED <<SERIAL_LOCK, stop_reading>>

\* self.tank_monitor.log_tank_depth(self.convert(val))
Maxbotix_log_tank_depth ==
    /\ threads.maxbotix.pc = "log_tank_depth"
    /\ log_call("depth", convert(threads.maxbotix.val))
    /\ threads' = [threads EXCEPT !.maxbotix.pc = "log_distance"]

\* self.tank_monitor.log_distance(int(val))
Maxbotix_log_distance ==
    /\ threads.maxbotix.pc = "log_distance"
    /\ log_call("distance", F(threads.maxbotix.val))
    /\ threads' = [threads EXCEPT !.maxbotix.pc = "release"]

\* the with block is left, by its end or by an exception
Maxbotix_release ==
    /\ threads.maxbotix.pc = "release"
    /\ SERIAL_LOCK' = None
    /\ threads' = [threads EXCEPT !.maxbotix.pc = "sleep"]
    /\ ThreadLocal
    /\ UNCHANGED stop_reading

\* finally: sleep(0.1)
Maxbotix_sleep ==
    /\ threads.maxbotix.pc = "sleep"
    /\ threads' = [threads EXCEPT !.maxbotix.pc = "while"]
    /\ ThreadLocal
    /\ UNCHANGED <<SERIAL_LOCK, stop_reading>>

\* DensitrakHandler.read: the test of the while loop
Densitrak_while ==
    /\ threads.densitrak.pc = "while"
    /\ threads' = [threads EXCEPT !.densitrak.pc =
                      IF loop_continues(stop_reading.densitrak) THEN "acquire_density"
                      ELSE "done"]
    /\ ThreadLocal
    /\ UNCHANGED <<SERIAL_LOCK, stop_reading>>

\* send_command: with SERIAL_LOCK:
Densitrak_acquire ==
    /\ threads.densitrak.pc \in {"acquire_density", "acquire_temp"}
    /\ Lock_free(SERIAL_LOCK)
    /\ SERIAL_LOCK' = Some("densitrak")
    /\ threads' = [threads EXCEPT !.densitrak.pc =
                      IF threads.densitrak.pc = "acquire_density"
                      THEN "exchange_density" ELSE "exchange_temp"]
    /\ ThreadLocal
    /\ UNCHANGED stop_reading

\* send_command: flush, write, flush, read(17), flush and the decoding of the
\* response; the with block is left with the decoded value, or with an
\* exception that ends this round of the loop
Densitrak_exchange(raises, val) ==
    /\ threads.densitrak.pc \in {"exchange_density", "exchange_temp"}
    /\ IF raises
       THEN threads' = [threads EXCEPT !.densitrak.pc = "sleep"]
       ELSE /\ samples_left > 0
            /\ threads' = [threads EXCEPT !.densitrak =
                  [pc |-> IF threads.densitrak.pc = "exchange_density"
                          THEN "log_density" ELSE "log_water_temp",
                   val |-> val[threads.densitrak.pc]]]
    /\ SERIAL_LOCK' = None
    /\ ThreadLocal
    /\ UNCHANGED stop_reading

\* self.tank_monitor.log_density(...)
Densitrak_log_density ==
    /\ threads.densitrak.pc = "log_density"
    /\ log_call("density", threads.densitrak.val)
    /\ threads' = [threads EXCEPT !.densitrak.pc = "acquire_temp"]

\* self.tank_monitor.log_water_temp((5.0 / 9) * (... - 32.0))
Densitrak_log_water_temp ==
    /\ threads.densitrak.pc = "log_water_temp"
    /\ log_call("water_temp", to_celsius(threads.densitrak.val))
    /\ threads' = [threads EXCEPT !.densitrak.pc = "sleep"]

\* finally: sleep(2)
Densitrak_sleep ==
    /\ threads.densitrak.pc = "sleep"
    /\ threads' = [threads EXCEPT !.densitrak.pc = "while"]
    /\ ThreadLocal
    /\ UNCHANGED <<SERIAL_LOCK, stop_reading>>

NextMaxbotix ==
    \/ Maxbotix_while
    \/ Maxbotix_acquire
    \/ \E outcome \in {"reading", "nothing", "raises"} : \E val \in MaxbotixVals :
           Maxbotix_exchange(outcome, val)
    \/ Maxbotix_log_tank_depth
    \/ Maxbotix_log_distance
    \/ Maxbotix_release
    \/ Maxbotix_sleep

NextDensitrak ==
    \/ Densitrak_while
    \/ Densitrak_acquire
    \/ \E raises \in BOOLEAN :
       \E val \in [exchange_density : DensitrakVals.send_density,
                   exchange_temp : DensitrakVals.send_temp] :
           Densitrak_exchange(raises, val)
    \/ Densitrak_log_density
    \/ Densitrak_log_water_temp
    \/ Densitrak_sleep

NextSerial ==
    \/ \E h \in {"maxbotix", "densitrak"} : shutdown(h)
    \/ NextMaxbotix
    \/ NextDensitrak

SpecSerial == InitSerial /\ [][NextSerial]_vars

\* both threads keep being scheduled and every serial read returns (the
\* ports are opened with a timeout); a thread that waits for the lock gets it
\* when the other, which sleeps after each release, lets go of it
FairSpecSerial ==
    /\ SpecSerial
    /\ WF_vars(NextMaxbotix)
    /\ WF_vars(NextDensitrak)
    /\ SF_vars(Maxbotix_acquire)
    /\ SF_vars(Densitrak_acquire)

---------------------------------------------------------------------------
(* SpecValve: GET and POST /valve with any Authorization header, while the *)
(* clock moves on.                                                         *)

ValveTicks == 8

\* settings.CREDENTIALS
CREDENTIALS == [username |-> "admin", password |-> "admin"]

Usernames == {"admin", "root", "guest"}
Passwords == {"admin", "secret", ""}

\* the Authorization headers of a request: none, another scheme, or 'Basic '
\* followed by the base64 text of username:password
AuthHeaders ==
    {None, Some([scheme |-> "Bearer", b64 |-> <<"token">>])}
    \cup {Some([scheme |-> "Basic", b64 |-> <<u, ":", p>>]) : u \in Usernames, p \in Passwords}

\* base64.decodestring(s): the function was removed in Python 3.9, and the
\* module needs 3.9 for its dict[...] and tuple[...] annotations, so the
\* attribute lookup raises
base64_decodestring(s) == [value |-> None, exc |-> Some("AttributeError")]

\* ValveHandler.get_state()
get_state(v) == [valve |-> v._valve_state, transition_time |-> v._transition_time]

\* ValveHandler.post with the given Authorization header at time t: the
\* class attributes and the GPIO output afterwards, the status and the body
\* of the response, and the exception raised, if any
ValveHandler_post(v, auth_header, t) ==
    IF auth_header = None \/ auth_header[1].scheme # "Basic"
    THEN [valve |-> v, status |-> 401, body |-> None, exc |-> None]
    ELSE LET auth_decoded == base64_decodestring(auth_header[1].b64)
         IN  IF auth_decoded.exc # None
             THEN [valve |-> v, status |-> 500, body |-> None, exc |-> auth_decoded.exc]
             ELSE LET hdr_auth == [username |-> auth_decoded.value[1][1],
                                   password |-> auth_decoded.value[1][3]]
                  IN  IF hdr_auth # CREDENTIALS
                      THEN [valve |-> v, status |-> 403, body |-> None,
                            exc |-> Some("HTTPError")]
                      ELSE LET v1 == [_valve_state |-> ~v._valve_state,
                                      _transition_time |-> Some(t),
                                      gpio |-> IF ~v._valve_state THEN 1 ELSE 0]
                           IN  [valve |-> v1, status |-> 200, body |-> Some(get_state(v1)),
                                exc |-> None]

InitValve == InitMonitor(ValveTicks, 0) /\ IdleLogger /\ InitThreads

\* GET /valve
ValveGet ==
    /\ call' = [op |-> "get", arg |-> None,
                ret |-> Some([status |-> 200, body |-> Some(get_state(valve)),
                              exc |-> None])]
    /\ UNCHANGED <<tl, accepted, scenario_pos>>
    /\ UNCHANGED <<mvars, tvars, xvars>>

\* POST /valve
ValvePost(auth_header) ==
    /\ LET res == ValveHandler_post(valve, auth_header, now)
       IN  /\ valve' = res.valve
           /\ call' = [op |-> "post", arg |-> Some(auth_header),
                       ret |-> Some([status |-> res.status, body |-> res.body,
                                     exc |-> res.exc])]
    /\ UNCHANGED <<tl, accepted, scenario_pos>>
    /\ UNCHANGED <<mvars, tvars>>
    /\ UNCHANGED <<send_fails, SERIAL_LOCK, stop_reading, sessions, svars>>

NextValve ==
    \/ \E d \in TickSteps : Tick(d)
    \/ ValveGet
    \/ \E auth_header \in AuthHeaders : ValvePost(auth_header)

SpecValve == InitValve /\ [][NextValve]_vars

---------------------------------------------------------------------------
(* SpecSyslog: the log level.  POST /syslog raises it to DEBUG for half an *)
(* hour, and the periodic callback log_level_reset puts it back.           *)

SyslogTicks == 4

\* main(): PeriodicCallback(app.log_level_reset, callback_time=10 * 1000), in seconds
log_level_cb_time == 10

\* timedelta(minutes=m), in seconds
timedelta_minutes(m) == m * 60

\* how far the clock moves between two steps of the application
SyslogTickSteps == {log_level_cb_time, timedelta_minutes(30)}

\* log_level_reset_at.strftime("%b %d %Y %H:%M:%S"): the text of the time in
\* that format, which shows it to the second
strftime(t) == [format |-> "%b %d %Y %H:%M:%S", second |-> t]

\* SyslogStatusHandler.get_syslog_status, without the listing of the syslog
\* directory
get_syslog_status(level, reset_at) ==
    [level |-> level,
     level_reset_at |-> IF reset_at = None THEN None ELSE Some(strftime(reset_at[1]))]

\* a variant of reset_due that also fires at the reset time itself
reset_due_inclusive(reset_at, t) ==
    reset_at # None /\ reset_at[1] <= t

\* the test of log_level_reset at time t:
\* log_level_reset_at is not None and log_level_reset_at < datetime.now()
reset_due(reset_at, t) ==
    reset_at # None /\ reset_at[1] < t

InitSyslog == InitMonitor(SyslogTicks, 0) /\ IdleLogger /\ InitThreads

\* what a step of SpecSyslog leaves alone
SyslogOnly ==
    /\ UNCHANGED <<now, ticks_left, samples_left, tasks, loggers, last_alert,
                   generic_alert_mail, outbox, event_listeners>>
    /\ UNCHANGED <<send_fails, SERIAL_LOCK, stop_reading, valve, sessions>>
    /\ UNCHANGED <<lvars, tvars>>

\* GET /syslog
SyslogStatusHandler_get ==
    /\ out' = [NoOut EXCEPT !.op = "syslog_get",
                  !.response = Some(get_syslog_status(log_level, log_level_reset_at))]
    /\ UNCHANGED svars
    /\ SyslogOnly

\* POST /syslog
SyslogStatusHandler_post ==
    /\ log_level' = "DEBUG"
    /\ log_level_reset_at' = Some(now + timedelta_minutes(30))
    /\ out' = [NoOut EXCEPT !.op = "syslog_post",
                  !.response = Some(get_syslog_status(log_level', log_level_reset_at'))]
    /\ SyslogOnly

\* TankMonitor.log_level_reset, run by the periodic callback; the response
\* is the line it writes to the log
log_level_reset ==
    /\ IF reset_due(log_level_reset_at, now)
       THEN /\ log_level' = "INFO"
            /\ log_level_reset_at' = None
            /\ out' = [NoOut EXCEPT !.op = "log_level_reset",
                          !.response = Some([info |-> "Resetting logging level to INFO"])]
       ELSE /\ UNCHANGED svars
            /\ out' = [NoOut EXCEPT !.op = "log_level_reset"]
    /\ SyslogOnly

NextSyslog ==
    \/ \E d \in SyslogTickSteps : Tick(d)
    \/ SyslogStatusHandler_get
    \/ SyslogStatusHandler_post
    \/ log_level_reset

SpecSyslog == InitSyslog /\ [][NextSyslog]_vars

\* the periodic callback keeps firing
FairSpecSyslog == SpecSyslog /\ WF_vars(log_level_reset)

---------------------------------------------------------------------------
(* Claims about one TankLogger, checked under SpecLogger *)

Min(a, b) == IF a < b THEN a ELSE b

\* the step is a call of offer(r): r is call'.arg[1], the object before is tl
OfferStep == call'.op = "offer"

\* C1: an offered record r is appended exactly when r.timestamp > next_capture
\* at the moment of the offer, and an acceptance sets next_capture to
\* r.timestamp + log_interval.
C1_CaptureRule ==
    [][OfferStep =>
        LET r == call'.arg[1]
        IN  IF r.timestamp > tl.next_capture
            THEN /\ Len(tl'.records) = Min(Len(tl.records) + 1, tl.maxlen)
                 /\ Last(tl'.records) = r
                 /\ tl'.next_capture = r.timestamp + tl.log_interval
            ELSE tl'.records = tl.records]_vars

C1_Witness ==
    /\ call.op = "offer"
    /\ Len(accepted) >= 2
    /\ Last(accepted) = call.arg[1]
    /\ Last(tl.records) = call.arg[1]
    /\ tl.next_capture = call.arg[1].timestamp + tl.log_interval

\* C2: the number of stored records never exceeds the capacity max_log_records.
C2_BoundedHistory == Len(tl.records) <= tl.maxlen

C2_Witness == Len(tl.records) = tl.maxlen /\ Len(accepted) > tl.maxlen

\* C3: the history is exactly the last min(n, #accepted) accepted records, in
\* acceptance order: only the oldest record is evicted, nothing is reordered
\* or altered.
C3_FifoHistory ==
    LET k == Min(tl.maxlen, Len(accepted))
    IN  tl.records = SubSeq(accepted, Len(accepted) - k + 1, Len(accepted))

C3_Witness == tl.maxlen >= 2 /\ Len(accepted) >= tl.maxlen + 2

\* C4: an offer with timestamp <= next_capture changes nothing in the
\* TankLogger and returns no alert; the record is still at or before
\* next_capture afterwards, so every repetition of the offer is rejected
\* the same way.
C4_RejectionIsNoOp ==
    [][(OfferStep /\ call'.arg[1].timestamp <= tl.next_capture) =>
        /\ tl' = tl
        /\ call'.ret = None
        /\ call'.arg[1].timestamp <= tl'.next_capture]_vars

C4_Witness ==
    /\ call.op = "offer"
    /\ accepted # <<>>
    /\ call.arg[1].timestamp > Last(accepted).timestamp
    /\ call.arg[1].timestamp <= tl.next_capture
    /\ \A i \in 1..Len(tl.records) : tl.records[i] # call.arg[1]

\* C5: consecutive stored records a, b satisfy b.timestamp > a.timestamp + c
\* for the cadence c >= 0, so stored timestamps strictly increase.
C5_CadenceSpacing ==
    \A i \in 1..(Len(tl.records) - 1) :
        /\ tl.records[i + 1].timestamp > tl.records[i].timestamp + tl.log_interval
        /\ tl.records[i + 1].timestamp > tl.records[i].timestamp

C5_Witness == Len(tl.records) >= 3 /\ tl.log_interval > 0

InScenario(k) == scenario_pos = k /\ tl.maxlen = 3 /\ tl.log_interval = 60

\* C6 as stated: (0,100) accepted, (30,90) rejected, (65,80), (130,70) and
\* (200,60) accepted, history (65,80),(130,70),(200,60).
C6_Original ==
    /\ InScenario(1) => accepted = <<R(0, 100)>>
    /\ InScenario(2) => accepted = <<R(0, 100)>>
    /\ InScenario(3) => accepted = <<R(0, 100), R(65, 80)>>
    /\ InScenario(4) => accepted = <<R(0, 100), R(65, 80), R(130, 70)>>
    /\ InScenario(5) =>
          /\ accepted = <<R(0, 100), R(65, 80), R(130, 70), R(200, 60)>>
          /\ tl.records = <<R(65, 80), R(130, 70), R(200, 60)>>

\* C6 amended: with capacity 3 and cadence 60 the offers (0,100), (30,90),
\* (65,80), (130,70), (200,60) reject (0,100) (0 is not after the initial
\* next_capture 0), accept (30,90), reject (65,80) (65 <= 90), accept
\* (130,70) and (200,60), and leave the history (30,90),(130,70),(200,60).
C6_Scenario ==
    /\ InScenario(1) => accepted = <<>> /\ tl.next_capture = 0
    /\ InScenario(2) => accepted = <<R(30, 90)>> /\ tl.next_capture = 90
    /\ InScenario(3) => accepted = <<R(30, 90)>> /\ tl.next_capture = 90
    /\ InScenario(4) => accepted = <<R(30, 90), R(130, 70)>> /\ tl.next_capture = 190
    /\ InScenario(5) =>
          /\ accepted = <<R(30, 90), R(130, 70), R(200, 60)>>
          /\ tl.records = <<R(30, 90), R(130, 70), R(200, 60)>>
          /\ tl.next_capture = 260

C6_Witness == InScenario(5) /\ Len(tl.records) = 3

\* C7: when offer accepts r and the series already held a record p, and the
\* threshold is set and comparator(rate of r against p, threshold) holds,
\* offer returns the alert (r.timestamp, r.value, delta = rate).
C7_RateAlert ==
    [][(/\ OfferStep
        /\ call'.arg[1].timestamp > tl.next_capture
        /\ tl.records # <<>>
        /\ tl.alert_rate_threshold # None
        /\ comparator(tl.comparator,
                      find_delta(call'.arg[1], Some(Last(tl.records))).delta[1],
                      tl.alert_rate_threshold[1]))
       => call'.ret = Some(TankAlert(call'.arg[1].timestamp, call'.arg[1].value,
                 find_delta(call'.arg[1], Some(Last(tl.records))).delta))]_vars

---------------------------------------------------------------------------
(* Claims about the alert cooldown, checked under SpecAlerts and Spec *)

\* the step ran an _offer_log_record that offered an alert to AlertMailer
AlertOfferStep == out'.op = "offer_log_record" /\ out'.offered # <<>>

\* the cooldown test of AlertMailer.offer, on the state before the step
CooldownOver == last_alert = None \/ now - last_alert[1] > EMAIL_period

\* the step handed the offered alert to the mail sink and stamped last_alert
Delivered ==
    /\ outbox' = Append(outbox, [category |-> out'.offered[1].category,
                                  alert |-> out'.offered[1].alert,
                                  time |-> now])
    /\ last_alert' = Some(now)

Suppressed == outbox' = outbox /\ last_alert' = last_alert

\* C8: an offered alert is delivered (handed to the mail sink, last_alert set
\* to the offer time) exactly when last_alert is null or offer_time -
\* last_alert > period, and is suppressed otherwise; at 2 * period after a
\* delivery it is delivered, at exactly one period after it is suppressed.
C8_Cooldown ==
    [][AlertOfferStep =>
        /\ CooldownOver <=> Delivered
        /\ ~CooldownOver <=> Suppressed
        /\ (last_alert # None /\ now - last_alert[1] = 2 * EMAIL_period) => Delivered
        /\ (last_alert # None /\ now - last_alert[1] = EMAIL_period) => Suppressed]_vars

C8_Witness ==
    /\ out.op = "offer_log_record"
    /\ out.offered # <<>>
    /\ Len(outbox) = 1
    /\ last_alert = Some(outbox[1].time)
    /\ now - last_alert[1] = EMAIL_period

\* C9: any two delivered notifications, whatever their categories, are more
\* than the cooldown period apart.
C9_GlobalCooldown ==
    \A i, j \in 1..Len(outbox) :
        i < j => outbox[j].time - outbox[i].time > EMAIL_period

C9_Witness ==
    /\ out.op = "offer_log_record"
    /\ out.offered # <<>>
    /\ out.offered[1].category = "density"
    /\ Len(outbox) = 1
    /\ outbox[1].category = "depth"
    /\ now - outbox[1].time <= EMAIL_period
    /\ now > outbox[1].time

\* C10: last_alert changes only in a step that delivers an alert; a
\* suppressed alert offer, a TankLogger offer, a live push and a query leave
\* it unchanged.
C10_LastAlertFrame ==
    [][/\ last_alert' # last_alert =>
            /\ AlertOfferStep
            /\ Len(outbox') = Len(outbox) + 1
            /\ Last(outbox').time = now
            /\ last_alert' = Some(now)
       /\ outbox' = outbox => last_alert' = last_alert
       /\ out'.op # "offer_log_record" => last_alert' = last_alert]_vars

C10_Witness ==
    /\ out.op = "offer_log_record"
    /\ out.offered # <<>>
    /\ out.pushed # {}
    /\ Len(outbox) = 1
    /\ last_alert = Some(outbox[1].time)
    /\ out.offered[1].alert.timestamp > outbox[1].time
    /\ Last(loggers[out.offered[1].category][1].records).timestamp
           = out.offered[1].alert.timestamp

---------------------------------------------------------------------------
(* Claims about the reader threads and the event loop, checked under       *)
(* SpecThreads and FairSpecThreads                                         *)

\* the runners inside the if body of AlertMailer.offer: the cooldown test has
\* passed and last_alert is not written yet
InStamp == {r \in Runners : frame[r] # None /\ frame[r][1].pc = "stamp"}

\* C11: the read of last_alert, the cooldown comparison and the write of
\* last_alert of one alert offer are never interleaved with another alert
\* offer: while an offer is between its test and its write no other offer is,
\* and last_alert still is the value it compared; so under any interleaving of
\* the reader threads two alerts offered within one cooldown window are never
\* both delivered.
C11_AtomicCooldown ==
    /\ Cardinality(InStamp) <= 1
    /\ \A r \in InStamp : frame[r][1].seen = Some(last_alert)
    /\ \A i, j \in 1..Len(outbox) :
           i < j => outbox[j].time - outbox[i].time > EMAIL_period

C11_Witness ==
    /\ out.op = "offer_log_record"
    /\ out.offered # <<>>
    /\ out.offered[1].category = "density"
    /\ Len(outbox) = 1
    /\ outbox[1].category = "depth"
    /\ now - outbox[1].time <= EMAIL_period
    /\ last_alert = Some(outbox[1].time)
    /\ tasks # <<>>

\* the runners inside TankLogger.offer on logger i of category k, between the
\* append and the next_capture update
InOffer(k, i) ==
    {r \in Runners : /\ frame[r] # None
                     /\ frame[r][1].pc = "advance"
                     /\ frame[r][1].category = k
                     /\ frame[r][1].i = i}

\* C12: under any interleaving of the reader threads at most one offer is
\* executing on a TankLogger: while one is between its append and its
\* next_capture update, the series still ends with the record it appended and
\* next_capture still is the value it tested, so no other offer has read or
\* written them; stored records therefore stay more than a cadence apart.
C12_OffersDoNotOverlap ==
    \A k \in Categories : \A i \in 1..Len(loggers[k]) :
        /\ Cardinality(InOffer(k, i)) <= 1
        /\ \A r \in InOffer(k, i) :
              /\ Last(loggers[k][i].records)
                     = TankLogRecord(frame[r][1].timestamp, frame[r][1].value)
              /\ loggers[k][i].next_capture = frame[r][1].seen[1]
        /\ \A j \in 1..(Len(loggers[k][i].records) - 1) :
              loggers[k][i].records[j + 1].timestamp
                  > loggers[k][i].records[j].timestamp + loggers[k][i].log_interval

C12_Witness ==
    \E k \in Categories : \E i \in 1..Len(loggers[k]) : \E r \in InOffer(k, i) :
        /\ Len(loggers[k][i].records) >= 2
        /\ frame[r][1].seen[1]
               = loggers[k][i].records[1].timestamp + loggers[k][i].log_interval
        /\ tasks # <<>>

\* the log_* calls that have returned so far, counted in the reader threads
Scheduled ==
    threads.maxbotix.read_count + (threads.maxbotix.read_count \div 5)
        - (IF threads.maxbotix.pc = "log_distance" THEN 1 ELSE 0)
        + (DensitrakSends - samples_left)

\* C13: a log_* call only schedules: the step in which it returns puts one
\* _offer_log_record call with the current time on the loop's queue and
\* changes no series, no alert state and no running call; and with the loop
\* running, whenever scheduled samples are waiting the loop eventually has
\* ingested every sample scheduled by then.
C13_FireAndForget ==
    /\ [][Scheduled' = Scheduled + 1 =>
            /\ Len(tasks') = Len(tasks) + 1
            /\ SubSeq(tasks', 1, Len(tasks)) = tasks
            /\ Last(tasks').timestamp = now
            /\ loggers' = loggers
            /\ last_alert' = last_alert
            /\ outbox' = outbox
            /\ event_listeners' = event_listeners
            /\ frame' = frame
            /\ ingested' = ingested]_vars
    /\ (ingested < Scheduled) ~> (ingested = Scheduled)

C13_Witness ==
    /\ Scheduled >= 3
    /\ ingested = 0
    /\ Len(tasks) >= 2
    /\ frame["loop"] # None
    /\ threads.densitrak.pc = "send_temp"

---------------------------------------------------------------------------
(* Claims about the ingestion of one sample, checked under SpecAlerts and  *)
(* Spec                                                                    *)

\* the step ran the oldest scheduled _offer_log_record, for the sample Head(tasks)
IngestStep == tasks # <<>> /\ out'.op = "offer_log_record"

\* the level of a sample of category k is out of bounds: depth below 10000.0,
\* density above 1.005
LevelOut(k, value) ==
    \/ k = "depth" /\ value.num < 10000 * value.den
    \/ k = "density" /\ 1000 * value.num > 1005 * value.den

\* C14: every ingested sample gets one level check, whether or not a series
\* retains it: a depth below the depth threshold or a density above the density
\* threshold offers exactly one alert (timestamp, value, delta = null) to
\* AlertMailer, and a value at or on the safe side of its threshold, or of
\* another category, offers none and leaves the mail queue alone.
C14_LevelCheck ==
    [][IngestStep =>
        LET t == Head(tasks)
        IN  IF LevelOut(t.category, t.value)
            THEN /\ out'.offered =
                       <<[category |-> t.category,
                          alert |-> [timestamp |-> t.timestamp, value |-> t.value,
                                     delta |-> None]]>>
                 /\ CooldownOver => Len(outbox') = Len(outbox) + 1
            ELSE /\ out'.offered = <<>>
                 /\ outbox' = outbox
                 /\ last_alert' = last_alert]_vars

\* an alert is offered for a sample that no series retains, after a sample at
\* the threshold was ingested without an alert
C14_Witness ==
    /\ out.op = "offer_log_record"
    /\ out.offered # <<>>
    /\ out.offered[1].category = "depth"
    /\ out.offered[1].alert.value = F(9500)
    /\ out.offered[1].alert.delta = None
    /\ Len(outbox) = 1
    /\ \A i \in 1..Len(loggers.depth) :
          /\ loggers.depth[i].records # <<>>
          /\ Last(loggers.depth[i].records).value = F(10000)

\* what offering record r does to one TankLogger l that decides on its own
\* next_capture
Offered(l, r) ==
    IF r.timestamp > l.next_capture
    THEN [l EXCEPT !.records = Append(l.records, r),
                   !.next_capture = r.timestamp + l.log_interval]
    ELSE l

\* C15: ingesting a sample of category k offers the one record (timestamp,
\* value) to each of the three TankLoggers of k, with cadences 10, 60 and 3600,
\* each accepting it exactly when the timestamp is after its own next_capture,
\* and changes no TankLogger of any other category.
C15_OfferToEverySeries ==
    [][IngestStep =>
        LET t == Head(tasks)
            r == [timestamp |-> t.timestamp, value |-> t.value]
        IN  /\ Len(loggers[t.category]) = 3
            /\ \A i \in 1..3 :
                  /\ loggers[t.category][i].log_interval = <<10, 60, 3600>>[i]
                  /\ Len(loggers[t.category][i].records) < default_max_log_records
                  /\ loggers'[t.category][i] = Offered(loggers[t.category][i], r)
            /\ \A k \in Categories \ {t.category} : loggers'[k] = loggers[k]]_vars

\* the 10 s and 60 s series accepted the sample just ingested and the 3600 s
\* series, still within its cadence, rejected it
C15_Witness ==
    /\ out.op = "offer_log_record"
    /\ \E k \in Categories :
          /\ Len(loggers[k][1].records) = 2
          /\ Len(loggers[k][2].records) = 2
          /\ Len(loggers[k][3].records) = 1
          /\ loggers[k][1].next_capture = Last(loggers[k][1].records).timestamp + 10
          /\ loggers[k][2].next_capture = Last(loggers[k][2].records).timestamp + 60
          /\ loggers[k][3].next_capture = loggers[k][3].records[1].timestamp + 3600
          /\ Last(loggers[k][1].records).timestamp < loggers[k][3].next_capture

\* the rate alert logger l returns for record r, and the per-minute rate of r
\* against the last record l stored before
RateAlert(l, r) == offer(l, r).ret
RateAgainstLast(l, r) == find_delta(r, Some(Last(l.records))).delta

\* C16: the depth series compare with rate < -200.0 and the density series
\* with rate > 0.02, the water_temp and distance series have no rate
\* threshold; ingesting a sample, a depth series returns no rate alert unless
\* the rate against its last record is below the depth rate threshold, a
\* density series none unless the rate is above the density rate threshold,
\* and a water_temp or distance sample causes neither a rate alert nor a
\* level alert.
C16_AlertPolicy ==
    /\ \A i \in 1..3 :
          /\ loggers.depth[i].comparator = "lt"
          /\ loggers.depth[i].alert_rate_threshold = Some([num |-> -200, den |-> 1])
          /\ loggers.density[i].comparator = "gt"
          /\ loggers.density[i].alert_rate_threshold = Some([num |-> 1, den |-> 50])
          /\ loggers.water_temp[i].alert_rate_threshold = None
          /\ loggers.distance[i].alert_rate_threshold = None
    /\ [][IngestStep =>
            LET t == Head(tasks)
                r == [timestamp |-> t.timestamp, value |-> t.value]
            IN  /\ \A i \in 1..3 :
                      LET l == loggers[t.category][i]
                          rate == RateAgainstLast(l, r)
                      IN  /\ (/\ t.category = "depth"
                              /\ (l.records = <<>> \/ rate = None
                                    \/ rate[1].num >= -200 * rate[1].den))
                                => RateAlert(l, r) = None
                          /\ (/\ t.category = "density"
                              /\ (l.records = <<>> \/ rate = None
                                    \/ 50 * rate[1].num <= rate[1].den))
                                => RateAlert(l, r) = None
                          /\ t.category \in {"water_temp", "distance"}
                                => RateAlert(l, r) = None
                /\ t.category \in {"water_temp", "distance"} =>
                      /\ out'.offered = <<>>
                      /\ out'.exc = None
                      /\ outbox' = outbox
                      /\ last_alert' = last_alert]_vars

\* a water_temp or distance series has just stored a second record, without
\* any alert
C16_Witness ==
    /\ out.op = "offer_log_record"
    /\ out.offered = <<>>
    /\ outbox = <<>>
    /\ \E k \in {"water_temp", "distance"} :
          /\ Len(loggers[k][1].records) = 2
          /\ loggers[k][1].next_capture = Last(loggers[k][1].records).timestamp + 10

---------------------------------------------------------------------------
(* Claims about find_delta and deltas, checked under SpecDelta and         *)
(* SpecLogger                                                              *)

\* the rational d is 60 * (a - b) / interval
IsRatePerMinute(d, a, b, interval) ==
    d.num * (a.den * b.den * interval) = 60 * (a.num * b.den - b.num * a.den) * d.den

\* C17: find_delta(record, prev) is (null, null) when prev is null or the two
\* timestamps are equal, and otherwise (interval, 60 * (record.value -
\* prev.value) / interval) with interval = record.timestamp - prev.timestamp,
\* negative intervals included; (60, 42) after (0, 50) gives the rate -8 per
\* minute.  The call changes nothing else.
C17_FindDelta ==
    [][call'.op = "find_delta" =>
        LET record == call'.arg[1][1]
            prev == call'.arg[1][2]
            res == call'.ret[1]
        IN  /\ IF prev = None \/ record.timestamp - prev[1].timestamp = 0
               THEN res = [interval |-> None, delta |-> None]
               ELSE /\ res.interval = Some(record.timestamp - prev[1].timestamp)
                    /\ res.delta # None
                    /\ IsRatePerMinute(res.delta[1], record.value, prev[1].value,
                                       record.timestamp - prev[1].timestamp)
            /\ (record = R(60, 42) /\ prev = Some(R(0, 50))) =>
                  res = [interval |-> Some(60), delta |-> Some(F(-8))]
            /\ UNCHANGED <<tl, loggers, last_alert, outbox, event_listeners>>]_vars

C17_Witness ==
    /\ call.op = "find_delta"
    /\ call.arg[1][1] = R(130, 70)
    /\ call.arg[1][2] = Some(R(30, 90))
    /\ call.ret[1] = [interval |-> Some(100), delta |-> Some(F(-12))]

\* the rational x lies strictly between the whole numbers a and b
StrictlyBetween(x, a, b) ==
    \/ a * x.den < x.num /\ x.num < b * x.den
    \/ b * x.den < x.num /\ x.num < a * x.den

\* C18: for a history h of k records, deltas returns at most k-1 records, none
\* when k <= 1, in the order of h: the j-th comes from h[j] and h[j+1], its
\* timestamp lies strictly between theirs and its value is the per-minute rate
\* of h[j+1] against h[j]; every pair with a non-zero interval gives a record,
\* and a pair with equal timestamps gives none.
C18_Deltas ==
    /\ call.op = "deltas" =>
          LET h == tl.records
              d == call.ret
          IN  /\ Len(d) <= IF Len(h) = 0 THEN 0 ELSE Len(h) - 1
              /\ Len(h) <= 1 => d = <<>>
              /\ Len(d) = Cardinality({j \in 1..(Len(h) - 1) :
                                          h[j + 1].timestamp # h[j].timestamp})
              /\ \A j \in 1..Len(d) :
                    /\ StrictlyBetween(d[j].timestamp, h[j].timestamp,
                                       h[j + 1].timestamp)
                    /\ IsRatePerMinute(d[j].value, h[j + 1].value, h[j].value,
                                       h[j + 1].timestamp - h[j].timestamp)
    /\ \A a, b \in Samples :
          a.timestamp = b.timestamp =>
              deltas([tl EXCEPT !.records = <<a, b>>]) = <<>>

C18_Witness ==
    /\ call.op = "deltas"
    /\ tl.records = <<R(30, 90), R(130, 70), R(200, 60)>>
    /\ Len(call.ret) = 2
    /\ call.ret[1] = [timestamp |-> F(80), value |-> F(-12)]
    /\ call.ret[2].timestamp = F(165)

\* C19: reading deltas leaves the TankLogger as it is (history, next_capture,
\* threshold, comparator, cadence and capacity), and a second read right
\* after a read returns the same sequence.
C19_DeltasReadOnly ==
    [][/\ call'.op = "deltas" => tl' = tl
       /\ (call.op = "deltas" /\ call'.op = "deltas") => call'.ret = call.ret]_vars

C19_Witness ==
    /\ call.op = "deltas"
    /\ Len(call.ret) >= 1
    /\ Len(tl.records) = Len(call.ret) + 1
    /\ tl.next_capture = Last(tl.records).timestamp + tl.log_interval
    /\ tl.alert_rate_threshold # None

---------------------------------------------------------------------------
(* Claims about the live events, checked under Spec *)

\* C20: with every send succeeding, each ingested sample of a configured
\* category sends the one event {event: log_value, category, unit, timestamp,
\* value} to exactly the listeners subscribed at that moment, whether or not a
\* series retained the sample and whether an alert was delivered, suppressed
\* or not offered; the ingestion leaves the subscriptions as they are and no
\* other step sends an event.
C20_LogValueEvent ==
    [][/\ IngestStep =>
            LET t == Head(tasks)
                msg == [event |-> "log_value",
                        category |-> t.category,
                        unit |-> CASE t.category = "depth" -> "litres"
                                   [] t.category = "density" -> "density"
                                   [] t.category = "water_temp" -> "degrees"
                                   [] t.category = "distance" -> "mm",
                        timestamp |-> t.timestamp,
                        value |-> t.value]
            IN  /\ out'.pushed = {<<c, msg>> : c \in event_listeners}
                /\ out'.exc = None
                /\ event_listeners' = event_listeners
       /\ out'.op # "offer_log_record" => out'.pushed = {}]_vars

\* a subscribed listener was sent the event of the last sample of the run,
\* which no series retained and whose alert was suppressed
C20_Witness ==
    /\ out.op = "offer_log_record"
    /\ out.pushed # {}
    /\ out.offered # <<>>
    /\ \E e \in out.pushed :
          /\ e[2].event = "log_value"
          /\ e[2].timestamp = out.offered[1].alert.timestamp
          /\ e[2].value = out.offered[1].alert.value
    /\ samples_left = 0
    /\ tasks = <<>>
    /\ Len(outbox) = 1
    /\ outbox[1].category = "density"
    /\ \A i \in 1..3 : Len(loggers.density[i].records) = 1
    /\ \A k \in Categories \ {"density"} : loggers[k][1].records = <<>>

---------------------------------------------------------------------------
(* Claims about failing sends, checked under SpecEvents *)

\* C21: when the send to a subscribed listener fails during the notify_all of
\* an ingestion, every other subscribed listener is still sent the event, the
\* failing listeners are removed from the listener set, and the ingestion
\* ends without an exception.
C21_FailedSendIsolated ==
    [][IngestStep /\ event_listeners \cap send_fails # {} =>
          /\ {p[1] : p \in out'.pushed} = event_listeners \ send_fails
          /\ event_listeners' = event_listeners \ send_fails
          /\ out'.exc = None]_vars

---------------------------------------------------------------------------
(* Claims about failing alert notifications, checked under SpecMail *)

\* C22: an ingestion ends without an exception whether or not the alert could
\* be rendered and sent: the sample is offered to every series of its
\* category and pushed to every listener, and last_alert is afterwards what
\* it was or the time of the offer; a send_message job that fails changes
\* nothing but the thread pool's queue.
C22_AlertFailureContained ==
    [][/\ IngestStep =>
            LET t == Head(tasks)
                r == TankLogRecord(t.timestamp, t.value)
            IN  /\ out'.exc = None
                /\ \A i \in 1..3 :
                      loggers'[t.category][i] = offer(loggers[t.category][i], r).self
                /\ {p[1] : p \in out'.pushed} = event_listeners
                /\ last_alert' \in {last_alert, Some(now)}
       /\ out'.op = "send_message" =>
            UNCHANGED <<loggers, last_alert, tasks, event_listeners>>]_vars

---------------------------------------------------------------------------
(* Claims about unknown categories, checked under SpecCallers *)

HasSeries(category, i) ==
    /\ category \in Categories
    /\ \E j \in 1..3 : loggers[category][j].log_interval = i

\* C23: ingesting a sample of a category without loggers ends with an
\* exception and changes no series, no next_capture, nothing of the alert
\* mailer and no subscription, and sends no event; a query for a category
\* without loggers, or for an interval that no series of the category has,
\* ends with an exception and no response.
C23_UnknownCategory ==
    [][/\ IngestStep /\ Head(tasks).category \notin Categories =>
            /\ out'.exc # None
            /\ out'.pushed = {}
            /\ UNCHANGED <<loggers, last_alert, outbox, event_listeners>>
       /\ \A category \in AnyCategories : \A i \in QueryIntervals : \A d \in BOOLEAN :
            Query(category, i, d) /\ ~HasSeries(category, i) =>
                out'.exc # None /\ out'.response = None]_vars

\* an ingestion of an unknown category failed while a series held a record
\* and a listener was subscribed
C23_Witness ==
    /\ out.op = "offer_log_record"
    /\ out.exc = Some("KeyError")
    /\ out.pushed = {}
    /\ event_listeners # {}
    /\ \E k \in Categories : loggers[k][1].records # <<>>

---------------------------------------------------------------------------
(* Claims about queries during ingestion, checked under SpecServe *)

\* the series l is between two complete offers: its next_capture belongs to
\* its newest record
Settled(l) ==
    l.records = <<>> \/ l.next_capture = Last(l.records).timestamp + l.log_interval

AsValues(records) == [j \in 1..Len(records) |-> <<records[j].timestamp, records[j].value>>]

\* C24: a query served while the reader threads keep submitting samples
\* returns the history, or the deltas, of a series that is between two
\* complete offers: never one whose newest record is appended while
\* next_capture is still the old one.
C24_ConsistentSnapshot ==
    [][\A category \in ServedCategories : \A i \in ServedIntervals : \A d \in BOOLEAN :
          (out'.op = "get" /\ Query(category, i, d)) =>
             \E j \in 1..3 :
                LET l == loggers[category][j]
                IN  /\ l.log_interval = i
                    /\ Settled(l)
                    /\ out'.response # None
                    /\ out'.response[1].values =
                          AsValues(IF d THEN deltas(l) ELSE l.records)]_vars

\* a query returned a stored record while a sample was waiting on the queue
\* and the Maxbotix thread was inside a reading
C24_Witness ==
    /\ out.op = "get"
    /\ out.response # None
    /\ Len(out.response[1].values) >= 1
    /\ tasks # <<>>
    /\ MaxbotixHoldsLock

---------------------------------------------------------------------------
(* Claims about the rate test of offer and about next_capture, checked     *)
(* under SpecLogger                                                        *)

---------------------------------------------------------------------------
(* Claims about the reader threads and SERIAL_LOCK, checked under          *)
(* FairSpecSerial                                                          *)

\* the Maxbotix thread is inside its with SERIAL_LOCK block
MaxbotixInExchange ==
    threads.maxbotix.pc \in {"exchange", "log_tank_depth", "log_distance", "release"}

\* the Densitrak thread is inside the with SERIAL_LOCK block of send_command
DensitrakInExchange == threads.densitrak.pc \in {"exchange_density", "exchange_temp"}

\* C26: the Maxbotix thread and the Densitrak thread are never inside a
\* serial exchange at the same time; the lock is held exactly while one of
\* them is inside its exchange, so it is released when the exchange ends,
\* also by an exception; and a thread that waits for the lock gets it.
C26_SerialLock ==
    /\ [](~(MaxbotixInExchange /\ DensitrakInExchange))
    /\ [](SERIAL_LOCK = (IF MaxbotixInExchange THEN Some("maxbotix")
                         ELSE IF DensitrakInExchange THEN Some("densitrak")
                         ELSE None))
    /\ (threads.maxbotix.pc = "acquire") ~> MaxbotixInExchange
    /\ (threads.densitrak.pc \in {"acquire_density", "acquire_temp"}) ~> DensitrakInExchange

\* the Densitrak thread waits for the lock while the Maxbotix thread logs a
\* depth inside its exchange, after an exchange of the Densitrak that raised
C26_Witness ==
    /\ threads.maxbotix.pc = "log_tank_depth"
    /\ threads.densitrak.pc = "acquire_density"
    /\ SERIAL_LOCK = Some("maxbotix")
    /\ samples_left = SerialSends
    /\ \E j \in 1..Len(tasks) : tasks[j].category = "distance"

---------------------------------------------------------------------------
(* Claims about the valve, checked under SpecValve *)

BasicFor(user) == Some([scheme |-> "Basic", b64 |-> <<user.username, ":", user.password>>])

\* C27: a POST whose Basic credentials are the configured ones flips the
\* valve state once, records the time and sets the GPIO output to the new
\* state; a POST without a Basic header is answered 401 and a POST with
\* other credentials 403, and these and every GET leave the valve state, the
\* transition time and the GPIO output as they are.
C27_ValveControl ==
    [][/\ call'.op = "post" /\ call' # call =>
            LET auth_header == call'.arg[1]
                ret == call'.ret[1]
            IN  IF auth_header = BasicFor(CREDENTIALS)
                THEN /\ valve'._valve_state = ~valve._valve_state
                     /\ valve'._transition_time = Some(now)
                     /\ valve'.gpio = (IF valve'._valve_state THEN 1 ELSE 0)
                ELSE /\ valve' = valve
                     /\ ret.status = (IF auth_header = None \/ auth_header[1].scheme # "Basic"
                                      THEN 401 ELSE 403)
       /\ call'.op # "post" => valve' = valve]_vars

\* the samples on the queue that handler h submitted
SubmittedBy(h, queue) ==
    SelectSeq(queue, LAMBDA t : t.category \in (IF h = "maxbotix" THEN {"depth", "distance"}
                                                 ELSE {"density", "water_temp"}))

\* C28: once shutdown() was called on a handler its read loop ends: the
\* thread finishes the round it is in, starts no new one and terminates, and
\* a terminated thread stays terminated and submits no sample.
C28_ShutdownStops ==
    /\ \A h \in {"maxbotix", "densitrak"} : stop_reading[h] ~> (threads[h].pc = "done")
    /\ [][\A h \in {"maxbotix", "densitrak"} :
             /\ stop_reading[h] /\ threads[h].pc = "while" =>
                   threads'[h].pc \in {"while", "done"}
             /\ threads[h].pc = "done" =>
                   /\ threads'[h].pc = "done"
                   /\ SubmittedBy(h, tasks') = SubmittedBy(h, tasks)]_vars

\* both read loops have ended after shutdown, the Maxbotix one after it
\* submitted a depth
C28_Witness ==
    /\ threads.maxbotix.pc = "done"
    /\ threads.densitrak.pc = "done"
    /\ stop_reading.maxbotix /\ stop_reading.densitrak
    /\ \E j \in 1..Len(tasks) : tasks[j].category = "depth"
    /\ \E j \in 1..Len(tasks) : tasks[j].category = "water_temp"

---------------------------------------------------------------------------
(* Claims about the alerts of one sample, checked under SpecAlerts *)

\* AlertMailer.offer called once more in the state after the step, at the
\* time of the step, would hand nothing over
LaterAlertSuppressed(category, alert) ==
    LET again == AlertMailer_offer(
                     [last_alert |-> last_alert', generic_alert_mail |-> generic_alert_mail',
                      outbox |-> outbox'], category, alert, now')
    IN  again.outbox = outbox' /\ again.last_alert = last_alert' /\ again.exc = None

\* C29: the ingestion of one sample offers at most one level alert and hands
\* at most one notification to the mail sink; no rate alert is offered, so
\* none comes before the level alert; and when the notification was handed
\* over, the cooldown suppresses every further alert offered for the sample.
C29_OneNotificationPerSample ==
    [][IngestStep =>
          /\ Len(out'.offered) <= 1
          /\ \A j \in 1..Len(out'.offered) : out'.offered[j].alert.delta = None
          /\ out'.exc = None
          /\ \/ outbox' = outbox
             \/ /\ Len(outbox') = Len(outbox) + 1
                /\ out'.offered # <<>>
                /\ Last(outbox').alert = out'.offered[1].alert
                /\ \A k \in {"depth", "density"} :
                      LaterAlertSuppressed(k, Last(outbox').alert)]_vars

\* the level alert of a depth sample was handed over in the step just taken,
\* and the three depth series stored the sample
C29_Witness ==
    /\ out.op = "offer_log_record"
    /\ out.offered # <<>>
    /\ outbox # <<>>
    /\ Last(outbox).alert = out.offered[1].alert
    /\ Last(outbox).time = now
    /\ last_alert = Some(now)
    /\ \A i \in 1..3 :
          /\ loggers.depth[i].records # <<>>
          /\ Last(loggers.depth[i].records).timestamp = out.offered[1].alert.timestamp

---------------------------------------------------------------------------
(* Claims about next_capture, checked under SpecLogger *)

\* C30: next_capture never decreases, and an accepting offer makes it
\* strictly greater; so a timestamp that is at or below next_capture, and
\* therefore rejected, is at or below it after every later step as well.
C30_NextCaptureMonotonic ==
    [][/\ tl'.next_capture >= tl.next_capture
       /\ OfferStep /\ call'.arg[1].timestamp > tl.next_capture =>
             tl'.next_capture > tl.next_capture
       /\ \A r \in Samples :
             r.timestamp <= tl.next_capture =>
                /\ r.timestamp <= tl'.next_capture
                /\ offer(tl', r).self = tl']_vars

\* with cadence 0 a record was rejected after next_capture had moved twice,
\* to a timestamp it had been rejected at before
C30_Witness ==
    /\ tl.log_interval = 0
    /\ call.op = "offer"
    /\ Len(accepted) >= 2
    /\ call.arg[1].timestamp <= tl.next_capture
    /\ call.arg[1].timestamp = accepted[1].timestamp

---------------------------------------------------------------------------
(* Claims about the life of a listener, checked under SpecEvents *)

\* the connections an ingestion sent its event to
PushedTo == {p[1] : p \in out'.pushed}

\* C31: a connection is in the listener set exactly from its on_open until
\* its on_close or until the ingestion whose send to it fails: on_open adds
\* it, on_close removes it without an exception, an ingestion removes the
\* members whose send fails and keeps the others, no other step changes the
\* set, and an event is only sent to members.
C31_ListenerLifecycle ==
    [][\A c \in EventConns :
          /\ on_open(c) => c \in event_listeners'
          /\ on_close(c) => out'.exc = None /\ c \notin event_listeners'
          /\ IngestStep =>
                /\ c \in event_listeners' <=> (c \in event_listeners /\ c \notin send_fails)
                /\ c \in PushedTo => c \in event_listeners
          /\ ~(on_open(c) \/ on_close(c) \/ IngestStep) =>
                (c \in event_listeners' <=> c \in event_listeners)]_vars

\* what the listener set is in every state: the open sessions, a failed
\* send or not
ListenersAreSessions == event_listeners = sessions

\* what on_close does in every order of the three operations
OnCloseSucceeds ==
    [][\A c \in EventConns :
          on_close(c) => out'.exc = None /\ event_listeners' = event_listeners \ {c}]_vars

---------------------------------------------------------------------------
(* Claims about the log level, checked under FairSpecSyslog *)

\* the reset time is pending and has passed
ResetDue == log_level_reset_at # None /\ log_level_reset_at[1] < now

\* C32: while the log level is DEBUG a reset time is pending; a POST to
\* /syslog sets the level to DEBUG and the reset time to 30 minutes after
\* the POST; log_level_reset changes neither while no reset time is pending
\* or the pending one has not passed, and restores INFO and clears the reset
\* time when it has passed; nothing else changes the two; and a reset time
\* that has passed leads to INFO with no reset time pending, or to a reset
\* time renewed by a later POST.
C32_LogLevelReset ==
    /\ [](log_level = "DEBUG" => log_level_reset_at # None)
    /\ [][/\ out'.op = "syslog_post" =>
                /\ log_level' = "DEBUG"
                /\ log_level_reset_at' = Some(now + 30 * 60)
          /\ out'.op = "log_level_reset" =>
                IF ResetDue
                THEN log_level' = "INFO" /\ log_level_reset_at' = None
                ELSE UNCHANGED svars
          /\ out'.op \notin {"syslog_post", "log_level_reset"} => UNCHANGED svars]_vars
    /\ ResetDue ~>
          \/ log_level = "INFO" /\ log_level_reset_at = None
          \/ log_level_reset_at # None /\ log_level_reset_at[1] >= now

\* log_level_reset has just restored INFO, ten seconds after the reset time
\* of a POST made at the start
C32_Witness ==
    /\ out.op = "log_level_reset"
    /\ out.response = Some([info |-> "Resetting logging level to INFO"])
    /\ log_level = "INFO"
    /\ log_level_reset_at = None
    /\ now = 1 + 30 * 60 + 10
    /\ ticks_left = SyslogTicks - 2

====
